---- MODULE Spec2Model ----
(***************************************************************************)
(* Model of the scoring and filtering pipeline of apex-predator-bot:       *)
(* AutomatedScanner (automated_scanner.py), StrikerEngineV3                *)
(* (striker_engine_v3.py) and its caller TradingBot (trading_bot.py).      *)
(*                                                                         *)
(* Encoding of Python values:                                              *)
(*   - an optional value (None / NaN versus a value) is a sequence of      *)
(*     length 0 or 1: <<>> is None (or NaN), <<v>> is the value v;         *)
(*   - a dictionary key that is absent is the string MissingKey for the    *)
(*     string fields; for numeric fields absent and None behave alike in   *)
(*     every place of the code (dict.get(k, d) or d), both are <<>>;       *)
(*   - percentages, RSI and MACD values are integers: every band limit of  *)
(*     the code is an integer, so each band has integer members;           *)
(*   - a quotient (volume / market cap, Bollinger position) is kept as a   *)
(*     pair [num, den] with den > 0 and compared by cross multiplication.  *)
(***************************************************************************)
EXTENDS Integers, Sequences, FiniteSets, TLC

(***************************************************************************)
(* Bounds of the model                                                     *)
(***************************************************************************)
MaxCoins == 2
MaxScans == 2
\* longest answer of the market snapshot source in SpecOneScan
MaxUniverse == 22
\* news posts in one answer of the news source
MaxPosts == 3

(***************************************************************************)
(* Python values                                                           *)
(***************************************************************************)
None == <<>>
NaN == <<>>
Some(v) == <<v>>
IsNone(x) == x = <<>>
Val(x) == x[1]
MissingKey == "<missing>"
NullStr == "<None>"

Range(s) == {s[i] : i \in 1..Len(s)}
Abs(x) == IF x < 0 THEN -x ELSE x
Max(a, b) == IF a >= b THEN a ELSE b

\* dict.get(k, d) or d  for a numeric field: None, absent and 0 all give d
OrDefault(x, d) == IF IsNone(x) \/ Val(x) = 0 THEN d ELSE Val(x)

(***************************************************************************)
(* str.lower() and str.upper() on the symbols of the model's universe      *)
(***************************************************************************)
\* as Lower, the symbol compared as it is spelled
Lower_as_spelled(s) == s

Lower(s) ==
    CASE s = "USDC" -> "usdc"
      [] s = "UsDc" -> "usdc"
      [] s = "DAI" -> "dai"
      [] s = "ALP" -> "alp"
      [] s = "BET" -> "bet"
      [] OTHER -> s

\* as Upper, the symbol kept as it is spelled
Upper_as_spelled(s) == s

Upper(s) ==
    CASE s = "usdc" -> "USDC"
      [] s = "alp" -> "ALP"
      [] s = "bet" -> "BET"
      [] s = "gam" -> "GAM"
      [] s = "del" -> "DEL"
      [] s = "eps" -> "EPS"
      [] s = "zet" -> "ZET"
      [] s = "btc" -> "BTC"
      [] OTHER -> s

(***************************************************************************)
(* AutomatedScanner.STABLECOINS                                            *)
(***************************************************************************)
STABLECOINS ==
    {"usdt", "usdc", "dai", "busd", "tusd", "usdp", "gusd", "frax",
     "usdd", "lusd", "susd", "eurs", "usdx", "usds", "fdusd", "pyusd",
     "eurc", "usd1", "usde", "usdy", "usdtb", "cusd", "usdr", "usdj",
     "ustb", "usdf", "usd0", "usda", "ylds", "ust", "flexusd"}

(***************************************************************************)
(* AssetSnapshot: the market snapshot source returns dictionaries          *)
(***************************************************************************)
Coin(nm, id, sym, price, c24, c7, vol, mcap, rank) ==
    [name |-> nm, id |-> id, symbol |-> sym, current_price |-> price,
     price_change_percentage_24h |-> c24, price_change_percentage_7d |-> c7,
     total_volume |-> vol, market_cap |-> mcap, market_cap_rank |-> rank]

\* well formed, best fundamentals (40)
CoinAlpha == Coin("Alpha", "alpha", "alp", Some(10), Some(7), Some(10),
                  Some(60), Some(100), Some(75))
\* stablecoin, upper-case symbol
CoinUsdc == Coin("USD Coin", "usd-coin", "USDC", Some(1), Some(0), Some(0),
                 Some(50), Some(100), Some(5))
\* no 'name' key
CoinNoName == Coin(MissingKey, "gamma", "gam", Some(10), Some(7), Some(10),
                   Some(60), Some(100), Some(75))
\* no 'id' key
CoinNoId == Coin("Delta", MissingKey, "del", Some(10), Some(7), Some(10),
                 Some(60), Some(100), Some(75))
\* symbol is None
CoinNullSym == Coin("Epsilon", "epsilon", NullStr, Some(10), Some(7), Some(10),
                    Some(60), Some(100), Some(75))
\* current_price is None
CoinNoPrice == Coin("Zeta", "zeta", "zet", None, Some(7), Some(10),
                    Some(60), Some(100), Some(75))
\* total_volume absent, weak fundamentals
CoinNoVolume == Coin("Beta", "beta", "bet", Some(3), Some(-10), Some(60),
                     None, Some(100), Some(300))

\* the snapshots of the scans; the direct calls of SpecScore use all seven
Catalogue == {CoinAlpha, CoinUsdc, CoinNoName, CoinNoId, CoinNoPrice}

AllCoins == Catalogue \cup {CoinNullSym, CoinNoVolume}

RECURSIVE SeqsUpTo(_, _)
SeqsUpTo(S, n) ==
    IF n = 0 THEN {<<>>}
    ELSE LET shorter == SeqsUpTo(S, n - 1)
         IN shorter \cup {Append(s, x) : s \in {t \in shorter : Len(t) = n - 1}, x \in S}

\* what the market snapshot source can answer
Universes == SeqsUpTo(Catalogue, MaxCoins)

(***************************************************************************)
(* Price history source and the indicator library                          *)
(*                                                                         *)
(* A reply of the price history source: ok = FALSE is a timeout or any     *)
(* fetch error; otherwise a series of len points, for which the indicator  *)
(* library either raises or yields its last values (each a number or NaN). *)
(***************************************************************************)
History(ok, len, raises, rsi, macd, sig, diff, up, lo, mid, price) ==
    [ok |-> ok, len |-> len, raises |-> raises, rsi |-> rsi, macd |-> macd,
     macd_signal |-> sig, macd_diff |-> diff, bb_upper |-> up,
     bb_lower |-> lo, bb_middle |-> mid, current_price |-> price]

HistFail == History(FALSE, 0, FALSE, NaN, NaN, NaN, NaN, NaN, NaN, NaN, NaN)
\* 20 points: too short for MACD
HistShort == History(TRUE, 20, FALSE, NaN, NaN, NaN, NaN, NaN, NaN, NaN, NaN)
\* RSI 35, MACD diff 6, price at 0.3 of the band: technical score 60
HistStrong == History(TRUE, 30, FALSE, Some(35), Some(8), Some(2), Some(6),
                      Some(20), Some(10), Some(15), Some(13))
\* RSI 75: overbought
HistOverbought == History(TRUE, 30, FALSE, Some(75), Some(8), Some(2), Some(6),
                          Some(20), Some(10), Some(15), Some(13))
\* RSI exactly 70, the limit of the post-filter: technical score 43
HistRsi70 == History(TRUE, 30, FALSE, Some(70), Some(8), Some(2), Some(6),
                     Some(20), Some(10), Some(15), Some(13))
\* flat series: RSI NaN, zero band width
HistFlat == History(TRUE, 30, FALSE, NaN, Some(0), Some(0), Some(0),
                    Some(10), Some(10), Some(10), Some(10))

\* RSI NaN, MACD diff 6, price at 0.7 of the band: technical score 40
HistNoRsi == History(TRUE, 30, FALSE, NaN, Some(8), Some(2), Some(6),
                     Some(20), Some(10), Some(15), Some(17))
\* the indicator library raises
HistRaises == History(TRUE, 30, TRUE, NaN, NaN, NaN, NaN, NaN, NaN, NaN, NaN)

\* 28 prices of 10, then 20, 20: the last 20 prices have mean 11 and
\* population deviation 3, so the bands are 11 +/- 6 and the price is above
HistBreakout == History(TRUE, 30, FALSE, Some(100), Some(1), Some(0), Some(1),
                        Some(17), Some(5), Some(11), Some(20))
\* 28 prices of 20, then 10, 10: bands 19 +/- 6, the price is below
HistBreakdown == History(TRUE, 30, FALSE, Some(0), Some(-1), Some(0), Some(-1),
                         Some(25), Some(13), Some(19), Some(10))

\* what the price history source answers during a scan; the direct calls
\* of SpecScore use all nine
Histories == {HistFail, HistShort, HistStrong, HistOverbought, HistNoRsi}

AllHistories == Histories \cup {HistFlat, HistRaises, HistBreakout,
                                HistBreakdown, HistRsi70}

MinPeriods == 26

Half == [num |-> 1, den |-> 2]

\* StrikerEngineV3.fetch_historical_prices: the DataFrame, or None on any error
fetch_historical_prices(h) == IF h.ok THEN Some(h) ELSE None

\* as bb_position_of, the position clamped to [0, 1]
bb_position_of_clamped(h) ==
    IF ~IsNone(h.bb_upper) /\ ~IsNone(h.bb_lower)
       /\ Val(h.bb_upper) - Val(h.bb_lower) > 0
    THEN IF IsNone(h.current_price) THEN NaN
         ELSE LET n == Val(h.current_price) - Val(h.bb_lower)
                  d == Val(h.bb_upper) - Val(h.bb_lower)
              IN Some([num |-> IF n < 0 THEN 0 ELSE IF n > d THEN d ELSE n,
                       den |-> d])
    ELSE Some(Half)

\* as bb_position_of, the quotient taken whatever the width
bb_position_of_unguarded(h) ==
    IF ~IsNone(h.bb_upper) /\ ~IsNone(h.bb_lower)
    THEN IF IsNone(h.current_price) THEN NaN
         ELSE Some([num |-> Val(h.current_price) - Val(h.bb_lower),
                    den |-> Val(h.bb_upper) - Val(h.bb_lower)])
    ELSE NaN

\* line 83: a comparison with NaN is false, arithmetic on NaN is NaN
bb_position_of(h) ==
    IF ~IsNone(h.bb_upper) /\ ~IsNone(h.bb_lower)
       /\ Val(h.bb_upper) - Val(h.bb_lower) > 0
    THEN IF IsNone(h.current_price) THEN NaN
         ELSE Some([num |-> Val(h.current_price) - Val(h.bb_lower),
                    den |-> Val(h.bb_upper) - Val(h.bb_lower)])
    ELSE Some(Half)

\* as calculate_technical_indicators, 26 points still too few
calculate_technical_indicators_above_26(df) ==
    IF IsNone(df) THEN None
    ELSE IF Val(df).len <= MinPeriods THEN None
    ELSE IF Val(df).raises THEN None
    ELSE LET h == Val(df)
         IN Some([rsi |-> h.rsi, macd |-> h.macd, macd_signal |-> h.macd_signal,
                  macd_diff |-> h.macd_diff, bb_upper |-> h.bb_upper,
                  bb_lower |-> h.bb_lower, bb_middle |-> h.bb_middle,
                  bb_position |-> bb_position_of(h),
                  current_price |-> h.current_price])

\* StrikerEngineV3.calculate_technical_indicators: the record, or None
calculate_technical_indicators(df) ==
    IF IsNone(df) THEN None
    ELSE IF Val(df).len < MinPeriods THEN None
    ELSE IF Val(df).raises THEN None
    ELSE LET h == Val(df)
         IN Some([rsi |-> h.rsi, macd |-> h.macd, macd_signal |-> h.macd_signal,
                  macd_diff |-> h.macd_diff, bb_upper |-> h.bb_upper,
                  bb_lower |-> h.bb_lower, bb_middle |-> h.bb_middle,
                  bb_position |-> bb_position_of(h),
                  current_price |-> h.current_price])

(***************************************************************************)
(* StrikerEngineV3.score_technical                                         *)
(***************************************************************************)
NeutralTechnical == 30

\* as rsi_band, the optimal buy zone worth 25
rsi_band_generous(rsi) ==
    IF IsNone(rsi) THEN [score |-> 10, detail |-> "RSI: N/A (neutral: +10)"]
    ELSE LET r == Val(rsi)
         IN IF r < 20 THEN [score |-> 5, detail |-> "RSI extremely oversold: +5"]
            ELSE IF 20 <= r /\ r < 30 THEN [score |-> 18, detail |-> "RSI oversold, good entry: +18"]
            ELSE IF 30 <= r /\ r < 40 THEN [score |-> 25, detail |-> "RSI optimal buy zone: +25"]
            ELSE IF 40 <= r /\ r < 60 THEN [score |-> 15, detail |-> "RSI neutral: +15"]
            ELSE IF 60 <= r /\ r < 70 THEN [score |-> 10, detail |-> "RSI getting overbought: +10"]
            ELSE IF 70 <= r /\ r < 80 THEN [score |-> 3, detail |-> "RSI overbought - SKIP: +3"]
            ELSE [score |-> 0, detail |-> "RSI extremely overbought - AVOID: +0"]

\* as rsi_band, the score growing as the RSI falls: below 20 worth 20
rsi_band_lower_is_better(rsi) ==
    IF IsNone(rsi) THEN [score |-> 10, detail |-> "RSI: N/A (neutral: +10)"]
    ELSE LET r == Val(rsi)
         IN IF r < 20 THEN [score |-> 20, detail |-> "RSI extremely oversold: +20"]
            ELSE IF 20 <= r /\ r < 30 THEN [score |-> 18, detail |-> "RSI oversold, good entry: +18"]
            ELSE IF 30 <= r /\ r < 40 THEN [score |-> 20, detail |-> "RSI optimal buy zone: +20"]
            ELSE IF 40 <= r /\ r < 60 THEN [score |-> 15, detail |-> "RSI neutral: +15"]
            ELSE IF 60 <= r /\ r < 70 THEN [score |-> 10, detail |-> "RSI getting overbought: +10"]
            ELSE IF 70 <= r /\ r < 80 THEN [score |-> 3, detail |-> "RSI overbought - SKIP: +3"]
            ELSE [score |-> 0, detail |-> "RSI extremely overbought - AVOID: +0"]

rsi_band(rsi) ==
    IF IsNone(rsi) THEN [score |-> 10, detail |-> "RSI: N/A (neutral: +10)"]
    ELSE LET r == Val(rsi)
         IN IF r < 20 THEN [score |-> 5, detail |-> "RSI extremely oversold: +5"]
            ELSE IF 20 <= r /\ r < 30 THEN [score |-> 18, detail |-> "RSI oversold, good entry: +18"]
            ELSE IF 30 <= r /\ r < 40 THEN [score |-> 20, detail |-> "RSI optimal buy zone: +20"]
            ELSE IF 40 <= r /\ r < 60 THEN [score |-> 15, detail |-> "RSI neutral: +15"]
            ELSE IF 60 <= r /\ r < 70 THEN [score |-> 10, detail |-> "RSI getting overbought: +10"]
            ELSE IF 70 <= r /\ r < 80 THEN [score |-> 3, detail |-> "RSI overbought - SKIP: +3"]
            ELSE [score |-> 0, detail |-> "RSI extremely overbought - AVOID: +0"]

\* as macd_band, a difference of exactly -2 in the bearish band
macd_band_bearish_from_minus_2(macd_diff) ==
    IF IsNone(macd_diff) THEN [score |-> 10, detail |-> "MACD: N/A (neutral: +10)"]
    ELSE LET d == Val(macd_diff)
         IN IF d > 0
            THEN IF d > 5 THEN [score |-> 20, detail |-> "MACD strong bullish: +20"]
                 ELSE IF d > 2 THEN [score |-> 17, detail |-> "MACD bullish: +17"]
                 ELSE [score |-> 14, detail |-> "MACD weak bullish: +14"]
            ELSE IF d < -5 THEN [score |-> 5, detail |-> "MACD strong bearish: +5"]
                 ELSE IF d <= -2 THEN [score |-> 8, detail |-> "MACD bearish: +8"]
                 ELSE [score |-> 11, detail |-> "MACD weak bearish: +11"]

macd_band(macd_diff) ==
    IF IsNone(macd_diff) THEN [score |-> 10, detail |-> "MACD: N/A (neutral: +10)"]
    ELSE LET d == Val(macd_diff)
         IN IF d > 0
            THEN IF d > 5 THEN [score |-> 20, detail |-> "MACD strong bullish: +20"]
                 ELSE IF d > 2 THEN [score |-> 17, detail |-> "MACD bullish: +17"]
                 ELSE [score |-> 14, detail |-> "MACD weak bullish: +14"]
            ELSE IF d < -5 THEN [score |-> 5, detail |-> "MACD strong bearish: +5"]
                 ELSE IF d < -2 THEN [score |-> 8, detail |-> "MACD bearish: +8"]
                 ELSE [score |-> 11, detail |-> "MACD weak bearish: +11"]

\* p = num/den with den > 0; 0.2, 0.4, 0.6, 0.8 are 1/5 .. 4/5
bb_band(bb_position) ==
    IF IsNone(bb_position) THEN [score |-> 10, detail |-> "BB: N/A (neutral: +10)"]
    ELSE LET n == Val(bb_position).num
             d == Val(bb_position).den
         IN IF 5 * n < d THEN [score |-> 18, detail |-> "BB near lower band, good entry: +18"]
            ELSE IF d <= 5 * n /\ 5 * n < 2 * d THEN [score |-> 20, detail |-> "BB optimal buy zone: +20"]
            ELSE IF 2 * d <= 5 * n /\ 5 * n < 3 * d THEN [score |-> 15, detail |-> "BB middle zone: +15"]
            ELSE IF 3 * d <= 5 * n /\ 5 * n < 4 * d THEN [score |-> 10, detail |-> "BB upper zone: +10"]
            ELSE IF 4 * d <= 5 * n /\ n <= d THEN [score |-> 5, detail |-> "BB near upper band, overbought: +5"]
            ELSE [score |-> 3, detail |-> "BB outside bands: +3"]

\* as score_technical, an absent record worth nothing
score_technical_absent_is_zero(coin_data, technical_indicators) ==
    IF IsNone(technical_indicators)
    THEN [score |-> 0, details |-> <<"No technical data available">>]
    ELSE LET ti == Val(technical_indicators)
             r == rsi_band(ti.rsi)
             m == macd_band(ti.macd_diff)
             b == bb_band(ti.bb_position)
         IN [score |-> r.score + m.score + b.score,
             details |-> <<r.detail, m.detail, b.detail>>]

score_technical(coin_data, technical_indicators) ==
    IF IsNone(technical_indicators)
    THEN [score |-> NeutralTechnical, details |-> <<"No technical data available">>]
    ELSE LET ti == Val(technical_indicators)
             r == rsi_band(ti.rsi)
             m == macd_band(ti.macd_diff)
             b == bb_band(ti.bb_position)
         IN [score |-> r.score + m.score + b.score,
             details |-> <<r.detail, m.detail, b.detail>>]

(***************************************************************************)
(* StrikerEngineV3.score_fundamental                                       *)
(***************************************************************************)
\* as momentum_band, a rise above 20 in the best band
momentum_band_hot_is_best(c) ==
    IF c > 20 THEN [score |-> 15, detail |-> "24h too hot: +15"]
    ELSE IF 10 < c /\ c <= 20 THEN [score |-> 10, detail |-> "24h strong: +10"]
    ELSE IF 5 < c /\ c <= 10 THEN [score |-> 15, detail |-> "24h optimal: +15"]
    ELSE IF 0 < c /\ c <= 5 THEN [score |-> 12, detail |-> "24h weak positive: +12"]
    ELSE IF -5 <= c /\ c <= 0 THEN [score |-> 8, detail |-> "24h slight decline: +8"]
    ELSE [score |-> 5, detail |-> "24h declining: +5"]

momentum_band(c) ==
    IF c > 20 THEN [score |-> 3, detail |-> "24h too hot: +3"]
    ELSE IF 10 < c /\ c <= 20 THEN [score |-> 10, detail |-> "24h strong: +10"]
    ELSE IF 5 < c /\ c <= 10 THEN [score |-> 15, detail |-> "24h optimal: +15"]
    ELSE IF 0 < c /\ c <= 5 THEN [score |-> 12, detail |-> "24h weak positive: +12"]
    ELSE IF -5 <= c /\ c <= 0 THEN [score |-> 8, detail |-> "24h slight decline: +8"]
    ELSE [score |-> 5, detail |-> "24h declining: +5"]

\* volume / market_cap if market_cap > 0 else 0
volume_ratio(coin) ==
    LET volume == OrDefault(coin.total_volume, 0)
        market_cap == OrDefault(coin.market_cap, 1)
    IN IF market_cap > 0 THEN [num |-> volume, den |-> market_cap]
       ELSE [num |-> 0, den |-> 1]

volume_band(q) ==
    IF 2 * q.num > q.den THEN [score |-> 10, detail |-> "Vol/MCap very high: +10"]
    ELSE IF 5 * q.num > q.den THEN [score |-> 8, detail |-> "Vol/MCap high: +8"]
    ELSE IF 10 * q.num > q.den THEN [score |-> 6, detail |-> "Vol/MCap good: +6"]
    ELSE [score |-> 3, detail |-> "Vol/MCap low: +3"]

rank_band(rank) ==
    IF rank <= 50 THEN [score |-> 7, detail |-> "Rank large cap: +7"]
    ELSE IF rank <= 100 THEN [score |-> 10, detail |-> "Rank mid cap: +10"]
    ELSE IF rank <= 250 THEN [score |-> 8, detail |-> "Rank small cap: +8"]
    ELSE [score |-> 5, detail |-> "Rank micro cap: +5"]

volatility_band(c7) ==
    IF Abs(c7) > 50 THEN [score |-> 1, detail |-> "7d very volatile: +1"]
    ELSE IF Abs(c7) > 25 THEN [score |-> 3, detail |-> "7d volatile: +3"]
    ELSE [score |-> 5, detail |-> "7d stable: +5"]

score_fundamental(coin_data) ==
    LET change_24h == OrDefault(coin_data.price_change_percentage_24h, 0)
        change_7d == OrDefault(coin_data.price_change_percentage_7d, 0)
        mo == momentum_band(change_24h)
        vo == volume_band(volume_ratio(coin_data))
        ra == rank_band(OrDefault(coin_data.market_cap_rank, 999))
        vy == volatility_band(change_7d)
    IN [score |-> mo.score + vo.score + ra.score + vy.score,
        details |-> <<mo.detail, vo.detail, ra.detail, vy.detail>>]

(***************************************************************************)
(* StrikerEngineV3.score_catalyst / score_narrative: constant scorers      *)
(***************************************************************************)
\* as score_catalyst, a detected catalyst worth the 40 points of the maximum
score_catalyst_detected(coin_data) ==
    [score |-> 40, details |-> <<"Catalyst detected">>]

score_catalyst(coin_data) ==
    [score |-> 20, details |-> <<"Catalyst detection requires separate module">>]

score_narrative(coin_data) ==
    [score |-> 10, details |-> <<"Narrative analysis requires sector data">>]

(***************************************************************************)
(* StrikerEngineV3.score_coin                                              *)
(*                                                                         *)
(* The result says whether the call raised, whether the price history      *)
(* source was called before that, and the (total_score, breakdown) pair.   *)
(***************************************************************************)
NoBreakdown ==
    [coin_name |-> NullStr, symbol |-> "", price |-> None,
     market_cap_rank |-> None, change_24h |-> None, change_7d |-> None,
     technical_score |-> 0, technical_details |-> <<>>,
     technical_indicators |-> None,
     fundamental_score |-> 0, fundamental_details |-> <<>>,
     catalyst_score |-> 0, catalyst_details |-> <<>>,
     narrative_score |-> 0, narrative_details |-> <<>>,
     total_score |-> 0]

\* as accumulate, the narrative score not added
accumulate_without_narrative(technical, fundamental, catalyst, narrative) ==
    0 + technical + fundamental + catalyst

\* total_score = 0, then += each of the four sub-scores
accumulate(technical, fundamental, catalyst, narrative) ==
    0 + technical + fundamental + catalyst + narrative

score_coin(coin_data, h) ==
    IF coin_data.symbol = NullStr
    THEN \* None.upper(): AttributeError while the breakdown is built
         [raised |-> TRUE, fetched |-> FALSE, total |-> 0, breakdown |-> NoBreakdown]
    ELSE IF coin_data.id = MissingKey
    THEN \* coin_data['id']: KeyError
         [raised |-> TRUE, fetched |-> FALSE, total |-> 0, breakdown |-> NoBreakdown]
    ELSE LET df == fetch_historical_prices(h)
             technical_indicators == calculate_technical_indicators(df)
             t == score_technical(coin_data, technical_indicators)
             f == score_fundamental(coin_data)
             c == score_catalyst(coin_data)
             n == score_narrative(coin_data)
             total_score == accumulate(t.score, f.score, c.score, n.score)
         IN [raised |-> FALSE, fetched |-> TRUE, total |-> total_score,
             breakdown |->
               [coin_name |-> IF coin_data.name = MissingKey THEN NullStr
                              ELSE coin_data.name,
                symbol |-> IF coin_data.symbol = MissingKey THEN ""
                           ELSE Upper(coin_data.symbol),
                price |-> coin_data.current_price,
                market_cap_rank |-> coin_data.market_cap_rank,
                change_24h |-> coin_data.price_change_percentage_24h,
                change_7d |-> coin_data.price_change_percentage_7d,
                technical_score |-> t.score,
                technical_details |-> t.details,
                technical_indicators |-> technical_indicators,
                fundamental_score |-> f.score,
                fundamental_details |-> f.details,
                catalyst_score |-> c.score,
                catalyst_details |-> c.details,
                narrative_score |-> n.score,
                narrative_details |-> n.details,
                total_score |-> total_score]]

(***************************************************************************)
(* AutomatedScanner.get_market_regime                                      *)
(*                                                                         *)
(* reading: the sentiment source's value, or None when the request, the    *)
(* JSON decoding or int() fails.                                           *)
(***************************************************************************)
\* as get_market_regime, a reading of exactly 35 still BEAR
get_market_regime_inclusive(reading) ==
    IF IsNone(reading) THEN [regime |-> "UNKNOWN", fng_value |-> None]
    ELSE IF Val(reading) <= 35 THEN [regime |-> "BEAR", fng_value |-> reading]
    ELSE IF Val(reading) < 65 THEN [regime |-> "NEUTRAL", fng_value |-> reading]
    ELSE [regime |-> "BULL", fng_value |-> reading]

get_market_regime(reading) ==
    IF IsNone(reading) THEN [regime |-> "UNKNOWN", fng_value |-> None]
    ELSE IF Val(reading) < 35 THEN [regime |-> "BEAR", fng_value |-> reading]
    ELSE IF Val(reading) < 65 THEN [regime |-> "NEUTRAL", fng_value |-> reading]
    ELSE [regime |-> "BULL", fng_value |-> reading]

\* what the sentiment index source can answer
FngReadings == {None, Some(20), Some(50), Some(80)}

(***************************************************************************)
(* AutomatedScanner.apply_filters                                          *)
(*                                                                         *)
(* Every message of the loop reads coin['name'], which raises KeyError     *)
(* when the key is absent; the function has no handler.                    *)
(***************************************************************************)
\* as filter_coin, the two limits themselves excluded
filter_coin_limits_excluded(coin) ==
    LET symbol == Lower(IF coin.symbol \in {MissingKey, NullStr} THEN ""
                        ELSE coin.symbol)
        change_24h == OrDefault(coin.price_change_percentage_24h, 0)
        q == volume_ratio(coin)
        printsName == coin.name # MissingKey
    IN IF symbol \in STABLECOINS
       THEN IF printsName THEN "drop" ELSE "raise"
       ELSE IF Abs(change_24h) >= 50
       THEN IF printsName THEN "drop" ELSE "raise"
       ELSE IF 100 * q.num <= q.den
       THEN IF printsName THEN "drop" ELSE "raise"
       ELSE IF change_24h > 30 /\ ~printsName THEN "raise"
       ELSE "keep"

\* "drop", "keep", or "raise" for one coin
filter_coin(coin) ==
    LET symbol == Lower(IF coin.symbol \in {MissingKey, NullStr} THEN ""
                        ELSE coin.symbol)
        change_24h == OrDefault(coin.price_change_percentage_24h, 0)
        q == volume_ratio(coin)
        printsName == coin.name # MissingKey
    IN IF symbol \in STABLECOINS
       THEN IF printsName THEN "drop" ELSE "raise"
       ELSE IF Abs(change_24h) > 50
       THEN IF printsName THEN "drop" ELSE "raise"
       ELSE IF 100 * q.num < q.den
       THEN IF printsName THEN "drop" ELSE "raise"
       ELSE IF change_24h > 30 /\ ~printsName THEN "raise"
       ELSE "keep"

RECURSIVE filter_from(_, _, _)
filter_from(coins, i, filtered) ==
    IF i > Len(coins) THEN [raised |-> FALSE, filtered |-> filtered]
    ELSE LET v == filter_coin(coins[i])
         IN IF v = "raise" THEN [raised |-> TRUE, filtered |-> <<>>]
            ELSE IF v = "drop" THEN filter_from(coins, i + 1, filtered)
            ELSE filter_from(coins, i + 1, Append(filtered, coins[i]))

apply_filters(coins) == filter_from(coins, 1, <<>>)

(***************************************************************************)
(* AutomatedScanner.score_opportunities, one iteration of its loop         *)
(***************************************************************************)
ScoreLimit == 20
SleepSeconds == 6
OverboughtRsi == 70

\* as is_overbought, with the scorer's "extremely overbought" limit
is_overbought_above_80(breakdown) ==
    LET tech_indicators == breakdown.technical_indicators
    IN /\ ~IsNone(tech_indicators)
       /\ ~IsNone(Val(tech_indicators).rsi)
       /\ Val(Val(tech_indicators).rsi) > 80

\* as is_overbought, an RSI of exactly 70 dropped as well
is_overbought_from_70(breakdown) ==
    LET tech_indicators == breakdown.technical_indicators
    IN /\ ~IsNone(tech_indicators)
       /\ ~IsNone(Val(tech_indicators).rsi)
       /\ Val(Val(tech_indicators).rsi) >= OverboughtRsi

\* the RSI post-filter of lines 170-175
is_overbought(breakdown) ==
    LET tech_indicators == breakdown.technical_indicators
    IN /\ ~IsNone(tech_indicators)
       /\ ~IsNone(Val(tech_indicators).rsi)
       /\ Val(Val(tech_indicators).rsi) > OverboughtRsi

\* as score_iteration, a fetch error reaching the handler of the loop
score_iteration_fetch_raises(coin, h) ==
    IF coin.name = MissingKey
    THEN [verdict |-> "escape",
          sc |-> [raised |-> TRUE, fetched |-> FALSE, total |-> 0,
                  breakdown |-> NoBreakdown]]
    ELSE LET sc == score_coin(coin, h)
         IN IF sc.raised THEN [verdict |-> "error", sc |-> sc]
            ELSE IF ~h.ok THEN [verdict |-> "error", sc |-> sc]
            ELSE IF is_overbought(sc.breakdown) THEN [verdict |-> "overbought", sc |-> sc]
            ELSE [verdict |-> "append", sc |-> sc]

\* as score_iteration, an exception of score_coin leaving the loop
score_iteration_raise_aborts(coin, h) ==
    IF coin.name = MissingKey
    THEN [verdict |-> "escape",
          sc |-> [raised |-> TRUE, fetched |-> FALSE, total |-> 0,
                  breakdown |-> NoBreakdown]]
    ELSE LET sc == score_coin(coin, h)
         IN IF sc.raised THEN [verdict |-> "escape", sc |-> sc]
            ELSE IF is_overbought(sc.breakdown) THEN [verdict |-> "overbought", sc |-> sc]
            ELSE [verdict |-> "append", sc |-> sc]

\* "escape": the handler itself raises; "error": caught, coin skipped;
\* "overbought": dropped by the post-filter; "append": kept, then sleep
score_iteration(coin, h) ==
    IF coin.name = MissingKey
    THEN \* the print of the try block raises, then the print of the handler
         [verdict |-> "escape",
          sc |-> [raised |-> TRUE, fetched |-> FALSE, total |-> 0,
                  breakdown |-> NoBreakdown]]
    ELSE LET sc == score_coin(coin, h)
         IN IF sc.raised THEN [verdict |-> "error", sc |-> sc]
            ELSE IF is_overbought(sc.breakdown) THEN [verdict |-> "overbought", sc |-> sc]
            ELSE [verdict |-> "append", sc |-> sc]

\* as insert_desc, an entry placed before the entries it ties with
RECURSIVE insert_desc_before_ties(_, _)
insert_desc_before_ties(sorted, b) ==
    IF sorted = <<>> THEN <<b>>
    ELSE IF Head(sorted).total_score > b.total_score
         THEN <<Head(sorted)>> \o insert_desc_before_ties(Tail(sorted), b)
         ELSE <<b>> \o sorted

\* list.sort(key = total_score, reverse = True): stable, descending
RECURSIVE insert_desc(_, _)
insert_desc(sorted, b) ==
    IF sorted = <<>> THEN <<b>>
    ELSE IF Head(sorted).total_score >= b.total_score
         THEN <<Head(sorted)>> \o insert_desc(Tail(sorted), b)
         ELSE <<b>> \o sorted

RECURSIVE sort_by_score(_)
sort_by_score(scored) ==
    IF scored = <<>> THEN <<>>
    ELSE insert_desc(sort_by_score(SubSeq(scored, 1, Len(scored) - 1)),
                     scored[Len(scored)])

(***************************************************************************)
(* AutomatedScanner.run_scan, steps 4 and 5                                *)
(***************************************************************************)
\* as qualified_opportunities, a total equal to the threshold left out
qualified_strictly_above(scored, threshold) ==
    SelectSeq(scored, LAMBDA opp : opp.total_score > threshold)

qualified_opportunities(scored, threshold) ==
    SelectSeq(scored, LAMBDA opp : opp.total_score >= threshold)

\* as aborts, no stage ever found empty
aborts_never(assets) == FALSE

\* "if not coins:" and "if not filtered_coins:"
aborts(assets) == assets = <<>>

\* generate_report formats opp['price'] with :.4f, a TypeError on None
generate_report_raises(opportunities) ==
    \E i \in 1..Len(opportunities) : IsNone(opportunities[i].price)

(***************************************************************************)
(* State                                                                   *)
(*                                                                         *)
(*   min_score, check_regime   fields of the AutomatedScanner              *)
(*   configured                the min_score the scanner was built with    *)
(*   pc                        position in run_scan ("idle": not running)  *)
(*   regime, fng_value, coins, filtered_coins, scored_coins, idx           *)
(*                             locals of run_scan and of the scoring loop  *)
(*   result                    what the last run_scan gave its caller      *)
(*   bot_says                  the branch TradingBot.daily_market_scan took*)
(*   scans                     run_scan invocations so far                 *)
(* History variables, written but never read by the actions:               *)
(*   stages      the stages of this scan, in order of first entry          *)
(*   fetchlog    the price-history fetches of this scan; gap is the time   *)
(*               slept since the fetch before (None for the first)         *)
(*   slept       seconds slept since the last price-history fetch          *)
(*   scorelog    the iterations of the scoring loop of this scan: the      *)
(*               snapshot taken from coins[:limit], what became of it and  *)
(*               the breakdown score_coin built for it                     *)
(*   applied     the threshold used by step 4 of this scan                 *)
(*   outcome     how this scan ended                                       *)
(*   previous    outcome and returned value of the scan before this one,   *)
(*               kept for the scans that ended with nothing to report      *)
(*   unit        the last direct call of a scorer (specification SpecScore)*)
(***************************************************************************)
VARIABLES min_score, check_regime, configured, pc, regime, fng_value, coins,
          filtered_coins, scored_coins, idx, result, bot_says, scans,
          stages, fetchlog, slept, scorelog, applied, outcome, previous, unit

vars == <<min_score, check_regime, configured, pc, regime, fng_value, coins,
          filtered_coins, scored_coins, idx, result, bot_says, scans,
          stages, fetchlog, slept, scorelog, applied, outcome, previous, unit>>

TopN == 250
BearFloor == 110

\* min_score values a scanner is built with (TradingBot uses 95)
Thresholds == {95, 120}

NoResult == [kind |-> "pending", items |-> <<>>]
ReturnNone == [kind |-> "None", items |-> <<>>]
ReturnList(l) == [kind |-> "list", items |-> l]
Raise(from) == [kind |-> "raise", items |-> <<from>>]

\* the ways a scan ends with nothing to report
EmptyOutcomes == {"fetch empty", "filter empty", "nothing qualified"}
NoPrevious == [outcome |-> "other", value |-> "other"]

NoUnit == [fn |-> "none", args |-> <<>>, out |-> <<>>]

Enter(log, stage) == IF stage \in Range(log) THEN log ELSE Append(log, stage)

RECURSIVE EnterAll(_, _)
EnterAll(log, entered) ==
    IF entered = <<>> THEN log
    ELSE EnterAll(Enter(log, Head(entered)), Tail(entered))

\* what the caller can see of a returned value
Seen(r) ==
    IF r.kind = "list" THEN IF r.items = <<>> THEN "empty list" ELSE "list"
    ELSE r.kind

\* TradingBot.daily_market_scan, lines 99-107
daily_market_scan(r) ==
    IF r.kind = "raise" THEN "error"
    ELSE IF r.kind = "list" /\ Len(r.items) > 0 THEN "alert"
    ELSE "none found"

Init ==
    /\ min_score \in Thresholds
    /\ configured = min_score
    /\ check_regime \in BOOLEAN
    /\ pc = "idle"
    /\ regime = "None"
    /\ fng_value = None
    /\ coins = <<>>
    /\ filtered_coins = <<>>
    /\ scored_coins = <<>>
    /\ idx = 0
    /\ result = NoResult
    /\ bot_says = "nothing"
    /\ scans = 0
    /\ stages = <<>>
    /\ fetchlog = <<>>
    /\ slept = 0
    /\ scorelog = <<>>
    /\ applied = 0
    /\ outcome = "none"
    /\ previous = NoPrevious
    /\ unit = NoUnit

\* run_scan ends: its value (or exception) reaches daily_market_scan
Return(r, how) ==
    /\ pc' = "idle"
    /\ result' = r
    /\ outcome' = how
    /\ bot_says' = daily_market_scan(r)
    /\ UNCHANGED previous

Running(next) ==
    /\ pc' = next
    /\ UNCHANGED <<result, outcome, bot_says, previous>>

\* as regime_threshold, the BEAR floor assigned instead of max()
regime_threshold_floor_assigned(current, reg) ==
    IF reg = "BEAR" THEN BearFloor ELSE current

\* the threshold after step 0 of run_scan
regime_threshold(current, reg) ==
    IF reg = "BEAR" THEN Max(current, BearFloor) ELSE current

\* run_scan is called: step 0, the regime check, the sentiment index
\* source answering one of readings
RunScanWith(readings) ==
    /\ pc = "idle"
    /\ scans' = scans + 1
    /\ IF check_regime
       THEN \E reading \in readings :
              LET r == get_market_regime(reading)
              IN /\ regime' = r.regime
                 /\ fng_value' = r.fng_value
                 /\ min_score' = regime_threshold(min_score, r.regime)
       ELSE /\ regime' = "None"
            /\ fng_value' = None
            /\ min_score' = min_score
    /\ pc' = "fetch"
    /\ coins' = <<>>
    /\ filtered_coins' = <<>>
    /\ scored_coins' = <<>>
    /\ idx' = 0
    /\ result' = NoResult
    /\ bot_says' = "nothing"
    /\ stages' = <<>>
    /\ fetchlog' = <<>>
    /\ slept' = 0
    /\ scorelog' = <<>>
    /\ applied' = 0
    /\ outcome' = "running"
    /\ previous' = IF outcome \in EmptyOutcomes
                   THEN [outcome |-> outcome, value |-> Seen(result)]
                   ELSE NoPrevious
    /\ UNCHANGED <<check_regime, configured, unit>>

RunScan ==
    /\ scans < MaxScans
    /\ RunScanWith(FngReadings)

\* step 1: fetch_top_coins, the market snapshot source answering one of
\* universes; abort on an empty answer
FetchFrom(universes) ==
    /\ pc = "fetch"
    /\ \E u \in universes :
         LET fetched == SubSeq(u, 1, IF Len(u) < TopN THEN Len(u) ELSE TopN)
         IN /\ coins' = fetched
            /\ IF aborts(fetched)
               THEN Return(ReturnNone, "fetch empty")
               ELSE Running("prefilter")
    /\ stages' = Enter(stages, "FETCH")
    /\ UNCHANGED <<min_score, check_regime, configured, regime, fng_value,
                   filtered_coins, scored_coins, idx, scans, fetchlog, slept,
                   scorelog, applied, unit>>

Fetch == FetchFrom(Universes)

\* step 2: apply_filters, abort when nothing is left
PreFilter ==
    /\ pc = "prefilter"
    /\ \E r \in {apply_filters(coins)} :
          IF r.raised
          THEN /\ Return(Raise("apply_filters"), "exception")
               /\ filtered_coins' = <<>>
          ELSE /\ filtered_coins' = r.filtered
               /\ IF aborts(r.filtered)
                  THEN Return(ReturnNone, "filter empty")
                  ELSE Running("score")
    /\ idx' = 1
    /\ stages' = Enter(stages, "PRE_FILTER")
    /\ UNCHANGED <<min_score, check_regime, configured, regime, fng_value,
                   coins, scored_coins, scans, fetchlog, slept, scorelog,
                   applied, unit>>

\* how a reply of the price history source is logged
HistoryKind(h) ==
    IF ~h.ok THEN "failed"
    ELSE IF IsNone(calculate_technical_indicators(Some(h))) THEN "no indicators"
    ELSE "indicators"

\* as Candidates, without the slice
Candidates_unsliced == filtered_coins

\* coins[:limit]
Candidates == SubSeq(filtered_coins, 1,
                     IF Len(filtered_coins) < ScoreLimit THEN Len(filtered_coins)
                     ELSE ScoreLimit)

\* step 3: one iteration of the loop of score_opportunities, the price
\* history source answering one of histories; the last iteration is
\* followed by the sort
ScoreWith(histories) ==
    /\ pc = "score"
    /\ idx <= Len(Candidates)
    /\ \E h \in histories :
       \E it \in {score_iteration(Candidates[idx], h)} :
         LET last == idx = Len(Candidates)
             kept == IF it.verdict = "append"
                     THEN Append(scored_coins, it.sc.breakdown)
                     ELSE scored_coins
             afterFetch == IF it.sc.fetched THEN 0 ELSE slept
         IN /\ fetchlog' = IF it.sc.fetched
                           THEN Append(fetchlog,
                                  [pos |-> idx, kind |-> HistoryKind(h),
                                   verdict |-> it.verdict,
                                   gap |-> IF fetchlog = <<>> THEN None ELSE Some(slept)])
                           ELSE fetchlog
            /\ scorelog' = Append(scorelog,
                                  [coin |-> Candidates[idx],
                                   verdict |-> it.verdict,
                                   breakdown |-> it.sc.breakdown])
            /\ slept' = IF it.verdict = "append" THEN afterFetch + SleepSeconds
                        ELSE afterFetch
            /\ stages' = EnterAll(stages,
                             <<"SCORE">>
                             \o (IF it.verdict \in {"append", "overbought"}
                                 THEN <<"POST_FILTER">> ELSE <<>>)
                             \o (IF last /\ it.verdict # "escape"
                                 THEN <<"RANK">> ELSE <<>>))
            /\ IF it.verdict = "escape"
               THEN /\ Return(Raise("score_opportunities"), "exception")
                    /\ scored_coins' = scored_coins
                    /\ idx' = idx
               ELSE /\ Running(IF last THEN "threshold" ELSE "score")
                    /\ idx' = idx + 1
                    /\ scored_coins' = IF last THEN sort_by_score(kept) ELSE kept
    /\ UNCHANGED <<min_score, check_regime, configured, regime, fng_value,
                   coins, filtered_coins, scans, applied, unit>>

Score == ScoreWith(Histories)

\* steps 4 and 5: the threshold, the report, the return
Finish ==
    /\ pc = "threshold"
    /\ applied' = min_score
    /\ \E q \in {qualified_opportunities(scored_coins, min_score)} :
          IF generate_report_raises(q)
          THEN Return(Raise("generate_report"), "exception")
          ELSE Return(ReturnList(q), IF q = <<>> THEN "nothing qualified"
                                     ELSE "qualified")
    /\ stages' = EnterAll(stages, <<"THRESHOLD", "REPORT">>)
    /\ UNCHANGED <<min_score, check_regime, configured, regime, fng_value,
                   coins, filtered_coins, scored_coins, idx, scans, fetchlog,
                   slept, scorelog, unit>>

Next == RunScan \/ Fetch \/ PreFilter \/ Score \/ Finish

Spec == Init /\ [][Next]_vars

(***************************************************************************)
(* Direct calls of the scorers: specification SpecScore                    *)
(*                                                                         *)
(* The scorers are pure; each action calls one of them on an input drawn   *)
(* from the sets below and records the call in unit.                       *)
(***************************************************************************)
OptionOf(S) == {None} \cup {Some(x) : x \in S}

RsiInputs == OptionOf({0, 19, 20, 29, 30, 39, 40, 59, 60, 69, 70, 71, 79, 80, 100})
MacdInputs == OptionOf({-6, -5, -3, -2, -1, 0, 1, 2, 3, 5, 6})
\* positions in tenths, from below the lower band to above the upper band
BbInputs == OptionOf({[num |-> n, den |-> 10] : n \in -1..11})

Indicators(rsi, macd_diff, bb_position) ==
    [rsi |-> rsi, macd |-> Some(0), macd_signal |-> Some(0),
     macd_diff |-> macd_diff, bb_upper |-> Some(20), bb_lower |-> Some(10),
     bb_middle |-> Some(15), bb_position |-> bb_position,
     current_price |-> Some(15)]

Change24Inputs == OptionOf({-60, -6, -5, 0, 1, 5, 6, 10, 11, 20, 21, 60})
Change7Inputs == OptionOf({-51, -26, 0, 25, 26, 50, 51})
VolumeInputs == OptionOf({0, 10, 11, 20, 21, 50, 51})
MarketCapInputs == OptionOf({0, 100})
RankInputs == OptionOf({0, 1, 50, 51, 100, 101, 250, 251})

Snapshot(c24, c7, vol, mcap, rank) ==
    Coin("Alpha", "alpha", "alp", Some(10), c24, c7, vol, mcap, rank)

Call(fn, args) == [fn |-> fn, args |-> args, out |-> <<>>]

TechnicalCalls ==
    {Call("score_technical", <<ti>>) :
       ti \in {None} \cup {Some(Indicators(r, m, b)) :
                 r \in RsiInputs, m \in MacdInputs, b \in BbInputs}}

FundamentalCalls ==
    {Call("score_fundamental", <<Snapshot(c24, c7, vol, mcap, rank)>>) :
       c24 \in Change24Inputs, c7 \in Change7Inputs, vol \in VolumeInputs,
       mcap \in MarketCapInputs, rank \in RankInputs}

ConstantCalls ==
    {Call(fn, <<coin>>) : fn \in {"score_catalyst", "score_narrative"},
                          coin \in AllCoins}

CoinCalls ==
    {Call("score_coin", <<coin, h>>) : coin \in AllCoins, h \in AllHistories}

\* snapshots for apply_filters: name (or none), symbol, 24h change, volume,
\* market cap, rank
Sample(nm, sym, c24, vol, mcap, rank) ==
    Coin(nm, "sample", sym, Some(10), c24, Some(10), vol, mcap, rank)

FilterSamples ==
    \* spellings, passing metrics
    {Sample("S", sym, Some(7), Some(60), Some(100), Some(75)) :
       sym \in {"usdc", "UsDc", "DAI", "usd", "alp", NullStr, MissingKey}}
    \cup
    \* stablecoins with other metrics
    {Sample("S", "USDC", Some(60), None, Some(100), None),
     Sample("S", "USDC", Some(0), Some(60), None, Some(1))}
    \cup
    \* 24h changes around the limits
    {Sample("S", "alp", c24, Some(60), Some(100), Some(75)) :
       c24 \in OptionOf({-51, -50, 30, 31, 50, 51})}
    \cup
    \* volume / market cap around 0.01, and the defaults of absent fields
    {Sample("S", "alp", Some(7), Some(1), Some(100), Some(75)),
     Sample("S", "alp", Some(7), Some(9), Some(1000), Some(75)),
     Sample("S", "alp", Some(7), Some(10), Some(1000), Some(75)),
     Sample("S", "alp", Some(7), None, Some(100), Some(75)),
     Sample("S", "alp", Some(7), Some(60), None, Some(75)),
     Sample("S", "alp", Some(7), Some(60), Some(0), Some(75)),
     Sample("S", "alp", Some(7), Some(60), Some(-100), Some(75))}
    \cup
    \* both limits at once
    {Sample("S", "alp", Some(50), Some(1), Some(100), Some(75))}
    \cup
    \* no 'name' key: a stablecoin, an extreme, an illiquid, a flagged and
    \* a plain snapshot
    {Sample(MissingKey, "usdc", Some(7), Some(60), Some(100), Some(75)),
     Sample(MissingKey, "alp", Some(51), Some(60), Some(100), Some(75)),
     Sample(MissingKey, "alp", Some(7), Some(0), Some(100), Some(75)),
     Sample(MissingKey, "alp", Some(31), Some(60), Some(100), Some(75)),
     Sample(MissingKey, "alp", Some(7), Some(60), Some(100), Some(75))}

\* series for calculate_technical_indicators: lengths around 26 and the
\* last values <<bb_upper, bb_lower, bb_middle, price>> of the library
SeriesLengths == {0, 1, 20, 25, 26, 27, 30}

LastBands ==
    {<<Some(20), Some(10), Some(15), Some(13)>>,
     <<Some(20), Some(10), Some(15), Some(10)>>,
     <<Some(20), Some(10), Some(15), Some(20)>>,
     <<Some(17), Some(5), Some(11), Some(20)>>,
     <<Some(25), Some(13), Some(19), Some(10)>>,
     <<Some(10), Some(10), Some(10), Some(10)>>,
     <<NaN, NaN, NaN, Some(10)>>}

IndicatorCalls ==
    {Call("calculate_technical_indicators", <<df>>) :
       df \in {None} \cup
              {Some(History(TRUE, len, raises, rsi, Some(1), Some(0), Some(1),
                            b[1], b[2], b[3], b[4])) :
                 len \in SeriesLengths, raises \in BOOLEAN,
                 rsi \in {NaN, Some(50)}, b \in LastBands}}

FilterCalls ==
    {Call("apply_filters", <<listed>>) :
       listed \in SeqsUpTo(FilterSamples, MaxCoins)}

\* a scanner at rest and one pending call
InitScore ==
    /\ min_score = 95
    /\ configured = 95
    /\ check_regime = TRUE
    /\ pc = "idle"
    /\ regime = "None"
    /\ fng_value = None
    /\ coins = <<>>
    /\ filtered_coins = <<>>
    /\ scored_coins = <<>>
    /\ idx = 0
    /\ result = NoResult
    /\ bot_says = "nothing"
    /\ scans = 0
    /\ stages = <<>>
    /\ fetchlog = <<>>
    /\ slept = 0
    /\ scorelog = <<>>
    /\ applied = 0
    /\ outcome = "none"
    /\ previous = NoPrevious
    /\ unit \in TechnicalCalls \cup FundamentalCalls \cup ConstantCalls
                \cup CoinCalls \cup FilterCalls \cup IndicatorCalls

ScannerUnchanged ==
    UNCHANGED <<min_score, check_regime, configured, pc, regime, fng_value,
                coins, filtered_coins, scored_coins, idx, result, bot_says,
                scans, stages, fetchlog, slept, scorelog, applied, outcome,
                previous>>

Pending(fn) == unit.fn = fn /\ unit.out = <<>>

CallScoreTechnical ==
    /\ Pending("score_technical")
    /\ unit' = [unit EXCEPT !.out = <<score_technical(CoinAlpha, unit.args[1])>>]
    /\ ScannerUnchanged

CallScoreFundamental ==
    /\ Pending("score_fundamental")
    /\ unit' = [unit EXCEPT !.out = <<score_fundamental(unit.args[1])>>]
    /\ ScannerUnchanged

CallScoreCatalyst ==
    /\ Pending("score_catalyst")
    /\ unit' = [unit EXCEPT !.out = <<score_catalyst(unit.args[1])>>]
    /\ ScannerUnchanged

CallScoreNarrative ==
    /\ Pending("score_narrative")
    /\ unit' = [unit EXCEPT !.out = <<score_narrative(unit.args[1])>>]
    /\ ScannerUnchanged

CallScoreCoin ==
    /\ Pending("score_coin")
    /\ unit' = [unit EXCEPT !.out = <<score_coin(unit.args[1], unit.args[2])>>]
    /\ ScannerUnchanged

CallApplyFilters ==
    /\ Pending("apply_filters")
    /\ unit' = [unit EXCEPT !.out = <<apply_filters(unit.args[1])>>]
    /\ ScannerUnchanged

CallCalculateTechnicalIndicators ==
    /\ Pending("calculate_technical_indicators")
    /\ unit' = [unit EXCEPT
                   !.out = <<calculate_technical_indicators(unit.args[1])>>]
    /\ ScannerUnchanged

NextScore ==
    \/ CallScoreTechnical
    \/ CallScoreFundamental
    \/ CallScoreCatalyst
    \/ CallScoreNarrative
    \/ CallScoreCoin
    \/ CallApplyFilters
    \/ CallCalculateTechnicalIndicators

SpecScore == InitScore /\ [][NextScore]_vars

(***************************************************************************)
(* One scan of a new scanner: specification SpecOneScan                    *)
(*                                                                         *)
(* The answers of the three sources are drawn with the initial state and   *)
(* kept in unit: the sentiment reading, the universe of fetch_top_coins    *)
(* and, for the k-th price-history fetch, the k-th history of a plan.      *)
(* The actions are those of Spec, each source restricted to its answer.    *)
(***************************************************************************)
\* int(fng_data['data'][0]['value']); None: the request or the parse failed
SentimentReadings == OptionOf(-1..101)

\* the i-th asset (by market cap) of a long universe
Listed(i, stable) ==
    IF stable
    THEN Coin("USD Coin", "usd-coin", "USDC", Some(1), Some(0), Some(0),
              Some(50), Some(100), Some(i))
    ELSE Coin("Alpha", "alpha", "alp", Some(10), Some(7), Some(10),
              Some(60), Some(100), Some(i))

\* n assets in market-cap order, the one at position stableAt a stablecoin
LongUniverse(n, stableAt) == [i \in 1..n |-> Listed(i, i = stableAt)]

\* the k-th fetch is answered by the k-th history, cycle repeated
Plan(cycle, n) == [k \in 1..n |-> cycle[((k - 1) % Len(cycle)) + 1]]

Cycles == {<<HistFail>>, <<HistStrong>>, <<HistStrong, HistFail>>,
           <<HistFail, HistNoRsi, HistStrong>>,
           <<HistNoRsi, HistOverbought, HistStrong, HistShort>>,
           <<HistRsi70, HistOverbought, HistFail, HistNoRsi>>}

ScanCall(reading, universe, plan) ==
    Call("run_scan", <<reading, universe, plan>>)

\* every reading, a short universe
RegimeScans ==
    {ScanCall(reading, universe, <<HistStrong>>) :
       reading \in SentimentReadings, universe \in {<<>>, <<CoinAlpha>>}}

\* long universes, around the limit of score_opportunities
LongScans ==
    {ScanCall(reading, LongUniverse(n, stableAt), Plan(cycle, n)) :
       reading \in {None, Some(20)}, n \in 0..MaxUniverse,
       stableAt \in {0, 1, 3}, cycle \in Cycles}

\* min_score values of the single scan: those of Thresholds, the BEAR floor,
\* and one above every total a breakdown can reach
OneScanThresholds == Thresholds \cup {BearFloor, 131}

InitOneScan ==
    /\ min_score \in OneScanThresholds
    /\ configured = min_score
    /\ check_regime \in BOOLEAN
    /\ pc = "idle"
    /\ regime = "None"
    /\ fng_value = None
    /\ coins = <<>>
    /\ filtered_coins = <<>>
    /\ scored_coins = <<>>
    /\ idx = 0
    /\ result = NoResult
    /\ bot_says = "nothing"
    /\ scans = 0
    /\ stages = <<>>
    /\ fetchlog = <<>>
    /\ slept = 0
    /\ scorelog = <<>>
    /\ applied = 0
    /\ outcome = "none"
    /\ previous = NoPrevious
    /\ unit \in RegimeScans \cup LongScans

OneRunScan ==
    /\ unit.fn = "run_scan"
    /\ scans = 0
    /\ RunScanWith({unit.args[1]})

OneFetch ==
    /\ unit.fn = "run_scan"
    /\ FetchFrom({unit.args[2]})

OneScore ==
    /\ unit.fn = "run_scan"
    /\ pc = "score"
    /\ idx <= Len(Candidates)
    /\ ScoreWith({unit.args[3][idx]})

NextOneScan == OneRunScan \/ OneFetch \/ PreFilter \/ OneScore \/ Finish

SpecOneScan == InitOneScan /\ [][NextOneScan]_vars

(***************************************************************************)
(* CatalystDetector: specification SpecCatalyst                            *)
(*                                                                         *)
(* A post holds the codes of the coins it mentions and its votes.  The     *)
(* sentiment map is a dictionary: here the sequence of its entries in      *)
(* insertion order, one per coin code.                                     *)
(***************************************************************************)
Post(instruments, positive, negative) ==
    [instruments |-> instruments,
     votes |-> [positive |-> positive, negative |-> negative]]

post_sentiment(post) ==
    IF post.votes.positive > post.votes.negative THEN "positive"
    ELSE IF post.votes.negative > post.votes.positive THEN "negative"
    ELSE "neutral"

NewEntry(coin_code) ==
    [coin |-> coin_code, positive |-> 0, negative |-> 0, neutral |-> 0,
     posts |-> <<>>]

\* sentiment_map[coin_code][sentiment] += 1 and the post appended
Counted(entry, sentiment) ==
    [entry EXCEPT ![sentiment] = @ + 1,
                  !.posts = Append(@, sentiment)]

\* lines 97-111: one currency of a post
count_currency(sentiment_map, code, sentiment) ==
    LET coin_code == Upper(code)
    IN IF coin_code = "" THEN sentiment_map
       ELSE LET known == \E i \in 1..Len(sentiment_map) :
                            sentiment_map[i].coin = coin_code
                mapped == IF known THEN sentiment_map
                          ELSE Append(sentiment_map, NewEntry(coin_code))
            IN [i \in 1..Len(mapped) |->
                  IF mapped[i].coin = coin_code
                  THEN Counted(mapped[i], sentiment)
                  ELSE mapped[i]]

RECURSIVE count_currencies(_, _, _)
count_currencies(sentiment_map, currencies, sentiment) ==
    IF currencies = <<>> THEN sentiment_map
    ELSE count_currencies(count_currency(sentiment_map, Head(currencies), sentiment),
                          Tail(currencies), sentiment)

RECURSIVE analyze_from(_, _)
analyze_from(sentiment_map, posts) ==
    IF posts = <<>> THEN sentiment_map
    ELSE analyze_from(count_currencies(sentiment_map, Head(posts).instruments,
                                       post_sentiment(Head(posts))),
                      Tail(posts))

analyze_sentiment(posts) == analyze_from(<<>>, posts)

\* net_sentiment / total_news if total_news > 0 else 0, as a fraction
catalyst_strength_of(net_sentiment, total_news) ==
    IF total_news > 0 THEN [num |-> net_sentiment, den |-> total_news]
    ELSE [num |-> 0, den |-> 1]

catalyst_of(data) ==
    LET net_sentiment == data.positive - data.negative
        total_news == data.positive + data.negative + data.neutral
    IN [coin |-> data.coin,
        positive_count |-> data.positive,
        negative_count |-> data.negative,
        neutral_count |-> data.neutral,
        net_sentiment |-> net_sentiment,
        total_news |-> total_news,
        catalyst_strength |-> catalyst_strength_of(net_sentiment, total_news),
        posts |-> data.posts]

\* a >= b for fractions with positive denominators
AtLeast(a, b) == a.num * b.den >= b.num * a.den

\* list.sort(key = catalyst_strength, reverse = True): stable, descending
RECURSIVE insert_by_strength(_, _)
insert_by_strength(sorted, c) ==
    IF sorted = <<>> THEN <<c>>
    ELSE IF AtLeast(Head(sorted).catalyst_strength, c.catalyst_strength)
         THEN <<Head(sorted)>> \o insert_by_strength(Tail(sorted), c)
         ELSE <<c>> \o sorted

RECURSIVE sort_by_strength(_)
sort_by_strength(catalysts) ==
    IF catalysts = <<>> THEN <<>>
    ELSE insert_by_strength(sort_by_strength(SubSeq(catalysts, 1, Len(catalysts) - 1)),
                            catalysts[Len(catalysts)])

\* as identify_catalysts, a coin with as many negative as positive posts kept
identify_catalysts_keeps_ties(sentiment_map, min_positive) ==
    LET qualifies(data) ==
            /\ ~(data.positive < min_positive)
            /\ ~(data.positive < data.negative)
        kept == SelectSeq(sentiment_map, qualifies)
    IN sort_by_strength([i \in 1..Len(kept) |-> catalyst_of(kept[i])])

identify_catalysts(sentiment_map, min_positive) ==
    LET qualifies(data) ==
            /\ ~(data.positive < min_positive)
            /\ ~(data.positive <= data.negative)
        kept == SelectSeq(sentiment_map, qualifies)
    IN sort_by_strength([i \in 1..Len(kept) |-> catalyst_of(kept[i])])

\* what the news source can answer: posts mentioning one coin, two coins, a
\* code in lower case or an empty code; votes for, against, none
PostKinds ==
    {Post(instruments, votes[1], votes[2]) :
       instruments \in {<<"BTC">>, <<"ETH">>, <<"BTC", "ETH">>,
                        <<"btc">>, <<"">>},
       votes \in {<<1, 0>>, <<0, 1>>, <<0, 0>>}}

\* run_detection(min_positive) with the posts the news source answers;
\* 3 is the default of identify_catalysts and 2 that of run_detection
DetectionCalls(n) ==
    {Call("run_detection", <<posts, min_positive>>) :
       posts \in SeqsUpTo(PostKinds, n), min_positive \in 1..3}

InitCatalyst ==
    /\ min_score = 95
    /\ configured = 95
    /\ check_regime = TRUE
    /\ pc = "idle"
    /\ regime = "None"
    /\ fng_value = None
    /\ coins = <<>>
    /\ filtered_coins = <<>>
    /\ scored_coins = <<>>
    /\ idx = 0
    /\ result = NoResult
    /\ bot_says = "nothing"
    /\ scans = 0
    /\ stages = <<>>
    /\ fetchlog = <<>>
    /\ slept = 0
    /\ scorelog = <<>>
    /\ applied = 0
    /\ outcome = "none"
    /\ previous = NoPrevious
    /\ unit \in DetectionCalls(MaxPosts)

\* run_detection, lines 232-234: no posts, the detection returns None
DetectionAborts ==
    /\ Pending("run_detection")
    /\ unit.args[1] = <<>>
    /\ unit' = [unit EXCEPT !.out = <<ReturnNone>>]
    /\ ScannerUnchanged

\* run_detection, step 2
CallAnalyzeSentiment ==
    /\ Pending("run_detection")
    /\ unit.args[1] # <<>>
    /\ unit' = [unit EXCEPT !.out = <<analyze_sentiment(unit.args[1])>>]
    /\ ScannerUnchanged

\* run_detection, step 3
CallIdentifyCatalysts ==
    /\ unit.fn = "run_detection"
    /\ Len(unit.out) = 1
    /\ unit.args[1] # <<>>
    /\ unit' = [unit EXCEPT !.out = Append(@, identify_catalysts(unit.out[1], unit.args[2]))]
    /\ ScannerUnchanged

NextCatalyst == DetectionAborts \/ CallAnalyzeSentiment \/ CallIdentifyCatalysts

SpecCatalyst == InitCatalyst /\ [][NextCatalyst]_vars

(***************************************************************************)
(* Claims                                                                  *)
(***************************************************************************)
Items == result.items
Completed == pc = "idle" /\ outcome \in {"nothing qualified", "qualified"}

\* C1: the BEAR raise of the threshold is not carried over between scans:
\* every scan whose regime is not BEAR applies, in its THRESHOLD stage, the
\* threshold the scanner was configured with, also after an earlier BEAR scan.
C1_BearRaiseNotCarriedOver ==
    ("THRESHOLD" \in Range(stages) /\ regime # "BEAR") => applied = configured

\* C2: rate-limit contract: between any two consecutive price-history
\* fetches of a scan the 6-second pause elapses, whatever happened to the
\* earlier asset (kept, dropped by the RSI post-filter, or failed).
C2_PauseBetweenFetches ==
    \A k \in 1..Len(fetchlog) :
        IsNone(fetchlog[k].gap) \/ Val(fetchlog[k].gap) >= SleepSeconds

\* C3: the post-filter is authoritative: no asset whose RSI is available and
\* greater than 70 appears in the value returned by run_scan, whatever its
\* total score and whatever the threshold.
C3_NoOverboughtInResult ==
    result.kind = "list" =>
        \A i \in 1..Len(Items) :
            LET ti == Items[i].technical_indicators
            IN IsNone(ti) \/ IsNone(Val(ti).rsi) \/ Val(Val(ti).rsi) <= 70

\* C3 witness: a completed scan that returned assets and had dropped one
\* with RSI above 70 whose total (113) was above the threshold in force (95).
C3_Witness ==
    /\ Completed
    /\ applied = 95
    /\ Items # <<>>
    /\ \E k \in 1..Len(fetchlog) : fetchlog[k].verdict = "overbought"

\* C4: final qualification is exact: a completed scan returns exactly the
\* scored assets that survived the post-filter and whose total score is
\* greater than or equal to the threshold in force for that scan.
C4_QualificationExact ==
    Completed =>
        /\ \A i \in 1..Len(Items) : Items[i].total_score >= applied
        /\ \A i \in 1..Len(Items) : Items[i] \in Range(scored_coins)
        /\ Len(Items) = Cardinality({i \in 1..Len(scored_coins) :
                                        scored_coins[i].total_score >= applied})
        /\ \A i \in 1..Len(scored_coins) :
               scored_coins[i].total_score >= applied
                   => scored_coins[i] \in Range(Items)

\* C4 witness: a completed scan that returned an asset whose total equals
\* the threshold and left out a scored asset below it.
C4_Witness ==
    /\ Completed
    /\ \E i \in 1..Len(Items) : Items[i].total_score = applied
    /\ \E i \in 1..Len(scored_coins) : scored_coins[i].total_score < applied

\* C5: every sub-score lies in its declared bound for every input:
\* score_technical in [0,60] (absent indicators and every combination of
\* not-available rsi / macd_diff / bb_position included), score_fundamental
\* in [0,40] (missing or null fields included), score_catalyst in [0,40],
\* score_narrative in [0,20].
C5_SubScoresBounded ==
    unit.out # <<>> =>
        LET out == unit.out[1]
        IN /\ unit.fn = "score_technical" => out.score \in 0..60
           /\ unit.fn = "score_fundamental" => out.score \in 0..40
           /\ unit.fn = "score_catalyst" => out.score \in 0..40
           /\ unit.fn = "score_narrative" => out.score \in 0..20
           /\ (unit.fn = "score_coin" /\ ~out.raised) =>
                  /\ out.breakdown.technical_score \in 0..60
                  /\ out.breakdown.fundamental_score \in 0..40
                  /\ out.breakdown.catalyst_score \in 0..40
                  /\ out.breakdown.narrative_score \in 0..20

\* C5 witness: score_technical was called on a record whose rsi, macd_diff
\* and bb_position are all not available.
C5_Witness ==
    /\ unit.fn = "score_technical"
    /\ unit.out # <<>>
    /\ ~IsNone(unit.args[1])
    /\ IsNone(Val(unit.args[1]).rsi)
    /\ IsNone(Val(unit.args[1]).macd_diff)
    /\ IsNone(Val(unit.args[1]).bb_position)

\* C6: in every breakdown produced by score_coin, total_score equals
\* technical_score + fundamental_score + catalyst_score + narrative_score
\* as stored in that breakdown.
C6_TotalIsSumOfSubScores ==
    (unit.fn = "score_coin" /\ unit.out # <<>> /\ ~unit.out[1].raised) =>
        LET b == unit.out[1].breakdown
        IN /\ b.total_score = b.technical_score + b.fundamental_score
                              + b.catalyst_score + b.narrative_score
           /\ unit.out[1].total = b.total_score

\* C6 witness: score_coin assembled a breakdown from computed indicators.
C6_Witness ==
    /\ unit.fn = "score_coin"
    /\ unit.out # <<>>
    /\ ~unit.out[1].raised
    /\ ~IsNone(unit.out[1].breakdown.technical_indicators)
    /\ unit.out[1].breakdown.total_score = 130

\* C7: malformed input never propagates: whatever field a fetched snapshot
\* lacks, no exception escapes apply_filters, score_opportunities or
\* run_scan; the worst outcome of a scan is an empty result.
C7_NoExceptionEscapes ==
    result.kind # "raise" /\ bot_says # "error"

\* C8: the value returned by run_scan lets the caller tell apart, pairwise,
\* "no data available" (the fetch produced nothing), "data available,
\* nothing qualified" and "scan aborted early" (the pre-filter removed all).
C8_OutcomesToldApart ==
    (pc = "idle" /\ outcome \in EmptyOutcomes
     /\ previous.outcome \in EmptyOutcomes /\ outcome # previous.outcome)
        => Seen(result) # previous.value

\* log lists, without repetition, some of the stages of order, in that order
InOrder(log, order) ==
    log = SelectSeq(order, LAMBDA stage : stage \in Range(log))

AbortsOnEmptyStage ==
    /\ pc = "prefilter" => coins # <<>>
    /\ pc \in {"score", "threshold"} => filtered_coins # <<>>
    /\ "SCORE" \in Range(stages) => (coins # <<>> /\ filtered_coins # <<>>)
    /\ outcome \in {"fetch empty", "filter empty"} =>
           /\ pc = "idle"
           /\ result = ReturnNone
           /\ Seen(result) # Seen(ReturnList(<<>>))
           /\ fetchlog = <<>>
           /\ scored_coins = <<>>
           /\ Range(stages) \subseteq {"FETCH", "PRE_FILTER"}
    /\ outcome = "nothing qualified" => result = ReturnList(<<>>)

Fetchable(coin) ==
    coin.name # MissingKey /\ coin.symbol # NullStr /\ coin.id # MissingKey

\* C10: a failed price-history fetch never aborts the scan: the asset gets
\* indicators 'not available', is still assembled with technical sub-score
\* 30 and stays a candidate, and every later asset among the top K is still
\* fetched and scored.
C10_FailedFetchDegrades ==
    /\ \A k \in 1..Len(fetchlog) :
           fetchlog[k].kind = "failed" => fetchlog[k].verdict = "append"
    /\ \A i \in 1..Len(scored_coins) :
           IsNone(scored_coins[i].technical_indicators)
               => scored_coins[i].technical_score = 30
    /\ Cardinality({i \in 1..Len(scored_coins) :
                        IsNone(scored_coins[i].technical_indicators)})
           = Cardinality({k \in 1..Len(fetchlog) :
                            fetchlog[k].kind \in {"failed", "no indicators"}})
    /\ (pc \in {"score", "threshold"} \/ Completed) =>
           {fetchlog[k].pos : k \in 1..Len(fetchlog)}
               = {i \in 1..(idx - 1) : Fetchable(Candidates[i])}
    /\ (pc = "threshold" \/ Completed) => idx = Len(Candidates) + 1

\* C10 witness: the first fetch of a scan failed, a later asset was fetched
\* with indicators, and the degraded asset (technical 30) is in the result.
C10_Witness ==
    /\ Completed
    /\ Len(fetchlog) >= 2
    /\ fetchlog[1].kind = "failed"
    /\ fetchlog[2].kind = "indicators"
    /\ \E i \in 1..Len(Items) :
           /\ Items[i].technical_score = 30
           /\ IsNone(Items[i].technical_indicators)

\* the snapshots for which score_coin raises: it is reached (the snapshot
\* has a name to print) and the breakdown or the fetch cannot be built
AssemblyRaises(coin) ==
    /\ coin.name # MissingKey
    /\ coin.symbol = NullStr \/ coin.id = MissingKey

Appended == SelectSeq(scorelog, LAMBDA e : e.verdict = "append")

\* C11: if assembling one asset raises, exactly that asset is excluded from
\* the scan result: the exception is caught inside the loop, nothing of the
\* asset is kept, and every remaining asset among the top K is still
\* submitted, scored and, when its total meets the threshold, returned.
C11_AssemblyRaiseExcludesOnlyThatAsset ==
    /\ \A k \in 1..Len(scorelog) :
           /\ AssemblyRaises(scorelog[k].coin) <=> scorelog[k].verdict = "error"
           /\ scorelog[k].verdict = "error" =>
                  \A i \in 1..Len(scored_coins) :
                      scored_coins[i].coin_name # scorelog[k].coin.name
    /\ result = Raise("score_opportunities") =>
           scorelog[Len(scorelog)].coin.name = MissingKey
    /\ \A k \in 1..Len(scorelog) : scorelog[k].coin = filtered_coins[k]
    /\ pc = "score" => Len(scorelog) = idx - 1
    /\ (pc = "threshold" \/ Completed) =>
           /\ Len(scorelog) = (IF Len(filtered_coins) < 20
                               THEN Len(filtered_coins) ELSE 20)
           /\ Len(scored_coins) = Len(Appended)
           /\ \A k \in 1..Len(Appended) :
                  Appended[k].breakdown \in Range(scored_coins)
    /\ Completed =>
           \A k \in 1..Len(Appended) :
               Appended[k].breakdown.total_score >= applied
                   => Appended[k].breakdown \in Range(Items)

\* C11 witness: score_coin raised for the first asset of a scan, the second
\* asset was scored after it and is the one entry of the returned list.
C11_Witness ==
    /\ Completed
    /\ Len(scorelog) = 2
    /\ scorelog[1].verdict = "error"
    /\ scorelog[2].verdict = "append"
    /\ Items = <<scorelog[2].breakdown>>

\* C12: in the first scan of a newly constructed scanner with configured
\* threshold T, the threshold applied in the THRESHOLD stage is max(T, 110)
\* when regime checking is enabled and the regime is BEAR, and exactly T
\* when the regime is BULL, NEUTRAL or UNKNOWN or regime checking is
\* disabled.
C12_SingleScanThreshold ==
    (scans = 1 /\ "THRESHOLD" \in Range(stages)) =>
        /\ check_regime => regime \in {"BEAR", "NEUTRAL", "BULL", "UNKNOWN"}
        /\ applied = IF check_regime /\ regime = "BEAR"
                     THEN (IF configured > 110 THEN configured ELSE 110)
                     ELSE configured

\* C12 witness: the first scan of a scanner configured with 95 ran in a
\* BEAR regime, applied 110 and returned an asset.
C12_Witness ==
    /\ scans = 1
    /\ Completed
    /\ check_regime
    /\ regime = "BEAR"
    /\ configured = 95
    /\ applied = 110
    /\ Items # <<>>

\* C13: get_market_regime maps a sentiment value v to BEAR when v < 35,
\* NEUTRAL when 35 <= v < 65 and BULL when v >= 65 (35 is NEUTRAL, 65 is
\* BULL); when the source fails or its reading is unusable the regime is
\* UNKNOWN with no numeric value, nothing is raised and run_scan goes on to
\* FETCH.
C13_RegimeClassification ==
    (unit.fn = "run_scan" /\ scans = 1 /\ check_regime) =>
        LET v == unit.args[1]
        IN /\ IsNone(v) => (regime = "UNKNOWN" /\ IsNone(fng_value))
           /\ ~IsNone(v) =>
                  /\ fng_value = v
                  /\ Val(v) < 35 => regime = "BEAR"
                  /\ (35 <= Val(v) /\ Val(v) < 65) => regime = "NEUTRAL"
                  /\ Val(v) >= 65 => regime = "BULL"
           /\ result.kind # "raise"
           /\ pc = "fetch" \/ "FETCH" \in Range(stages)

\* C13 witness: the reading was exactly 35, the regime NEUTRAL, and the
\* scan has fetched its universe.
C13_Witness ==
    /\ unit.fn = "run_scan"
    /\ check_regime
    /\ unit.args[1] = Some(35)
    /\ regime = "NEUTRAL"
    /\ coins # <<>>
    /\ pc = "prefilter"

\* C16: in every scan the assets submitted to scoring are exactly the first
\* min(K, n) entries of the pre-filter output, in its order, with K = 20
\* and n the size of that output; at most K price-history fetches are made
\* and the result has at most K entries, whatever the size of the universe.
C16_OnlyTopKScored ==
    LET n == Len(filtered_coins)
        k == IF n < 20 THEN n ELSE 20
    IN /\ Len(scorelog) <= k
       /\ \A i \in 1..Len(scorelog) : scorelog[i].coin = filtered_coins[i]
       /\ (pc = "threshold" \/ Completed) => Len(scorelog) = k
       /\ Len(fetchlog) <= 20
       /\ Len(scored_coins) <= 20
       /\ result.kind = "list" => Len(Items) <= 20

\* C16 witness: more than 20 assets passed the pre-filter, 20 were scored
\* and all 20 are in the result.
C16_Witness ==
    /\ Completed
    /\ Len(filtered_coins) > 20
    /\ Len(scorelog) = 20
    /\ Len(fetchlog) = 20
    /\ Len(Items) = 20

\* the iteration of the scoring loop that built breakdown b
Encounter(b) == CHOOSE k \in 1..Len(scorelog) : scorelog[k].breakdown = b

\* C17: the list returned by a completed scan is ordered by total_score,
\* non-increasing, and two entries with equal total_score are in the order
\* in which the scoring loop met them.
C17_RankedStable ==
    Completed =>
        \A i, j \in 1..Len(Items) :
            i < j =>
                \/ Items[i].total_score > Items[j].total_score
                \/ /\ Items[i].total_score = Items[j].total_score
                   /\ Encounter(Items[i]) < Encounter(Items[j])

\* C17 witness: a returned list with a tie, with a strict descent, and with
\* an entry ranked ahead of an entry the loop had met before it.
C17_Witness ==
    /\ Completed
    /\ \E i, j \in 1..Len(Items) :
           i < j /\ Items[i].total_score = Items[j].total_score
    /\ \E i, j \in 1..Len(Items) :
           i < j /\ Items[i].total_score > Items[j].total_score
    /\ \E i, j \in 1..Len(Items) :
           i < j /\ Encounter(Items[i]) > Encounter(Items[j])

Returned(fn) == unit.fn = fn /\ unit.out # <<>>

\* the spellings, among the symbols of FilterSamples, of a member of the
\* stablecoin set
StablecoinSpellings == {"usdc", "USDC", "UsDc", "DAI"}

\* C14: an asset whose symbol, compared case-insensitively, is a member of
\* the stablecoin set never appears in the output of apply_filters,
\* whatever its 24h change, volume, market cap or rank.
C14_StablecoinsExcluded ==
    (Returned("apply_filters") /\ ~unit.out[1].raised) =>
        \A i \in 1..Len(unit.out[1].filtered) :
            unit.out[1].filtered[i].symbol \notin StablecoinSpellings

\* C14 witness: apply_filters returned a non-empty list for an input that
\* holds a stablecoin spelled in mixed case whose metrics pass every other
\* filter.
C14_Witness ==
    /\ Returned("apply_filters")
    /\ ~unit.out[1].raised
    /\ unit.out[1].filtered # <<>>
    /\ \E i \in 1..Len(unit.args[1]) :
           unit.args[1][i] = Sample("S", "UsDc", Some(7), Some(60), Some(100),
                                    Some(75))

\* a snapshot whose 24h change, volume and market cap are numbers, the
\* market cap positive: the ratio of the claim is defined
Measured(coin) ==
    /\ ~IsNone(coin.price_change_percentage_24h)
    /\ ~IsNone(coin.total_volume)
    /\ ~IsNone(coin.market_cap)
    /\ Val(coin.market_cap) > 0

\* not a stablecoin, |24h change| <= 50, volume / market cap >= 0.01
KeptAsStated(coin) ==
    /\ coin.symbol \notin StablecoinSpellings
    /\ Val(coin.price_change_percentage_24h) <= 50
    /\ Val(coin.price_change_percentage_24h) >= -50
    /\ 100 * Val(coin.total_volume) >= Val(coin.market_cap)

\* C15: apply_filters returns, in input order and without duplication,
\* exactly the non-stablecoin assets with |24h change| <= 50 and
\* volume / market cap >= 0.01 (a change of exactly 50 and a ratio of
\* exactly 0.01 are kept); a 24h change above 30 on its own never excludes.
C15_FiltersExact ==
    (Returned("apply_filters") /\ ~unit.out[1].raised) =>
        LET listed == unit.args[1]
            filtered == unit.out[1].filtered
        IN /\ filtered = SelectSeq(listed, LAMBDA c : c \in Range(filtered))
           /\ \A i \in 1..Len(listed) :
                  Measured(listed[i]) =>
                      (listed[i] \in Range(filtered) <=> KeptAsStated(listed[i]))

\* C15 witness: apply_filters kept a snapshot with a 24h change of exactly
\* 50 and a ratio of exactly 0.01 and dropped one with a change of 51.
C15_Witness ==
    /\ Returned("apply_filters")
    /\ ~unit.out[1].raised
    /\ unit.args[1] = <<Sample("S", "alp", Some(51), Some(60), Some(100), Some(75)),
                        Sample("S", "alp", Some(50), Some(1), Some(100), Some(75))>>
    /\ unit.out[1].filtered
           = <<Sample("S", "alp", Some(50), Some(1), Some(100), Some(75))>>

\* calculate_technical_indicators returned a record for a series with
\* bb_upper > bb_lower
ComputedWithBands ==
    /\ Returned("calculate_technical_indicators")
    /\ ~IsNone(unit.out[1])
    /\ ~IsNone(unit.args[1])
    /\ Val(unit.args[1]).len >= 26
    /\ ~IsNone(Val(unit.out[1]).bb_upper)
    /\ ~IsNone(Val(unit.out[1]).bb_lower)
    /\ Val(Val(unit.out[1]).bb_upper) > Val(Val(unit.out[1]).bb_lower)

InUnitInterval(q) == 0 <= q.num /\ q.num <= q.den

\* C18 as stated: for every price series with at least 26 points, the
\* bb_position returned by calculate_technical_indicators lies in [0, 1]
\* whenever bb_upper > bb_lower.
C18_BbPositionInUnitInterval_AsStated ==
    ComputedWithBands =>
        /\ ~IsNone(Val(unit.out[1]).bb_position)
        /\ InUnitInterval(Val(Val(unit.out[1]).bb_position))

\* C18 amended: for every price series with at least 26 points and
\* bb_upper > bb_lower, the bb_position returned lies in [0, 1] exactly
\* when the current price lies between the bands (bb_lower <= price <=
\* bb_upper); it is below 0 for a price under the lower band and above 1
\* for a price over the upper band: the position is not clamped.
C18_BbPositionInUnitInterval ==
    ComputedWithBands =>
        LET ti == Val(unit.out[1])
            price == Val(ti.current_price)
        IN /\ ~IsNone(ti.bb_position)
           /\ InUnitInterval(Val(ti.bb_position))
                  <=> (Val(ti.bb_lower) <= price /\ price <= Val(ti.bb_upper))
           /\ price < Val(ti.bb_lower) => Val(ti.bb_position).num < 0
           /\ price > Val(ti.bb_upper)
                  => Val(ti.bb_position).num > Val(ti.bb_position).den

\* C18 witness: a series of 30 points whose last price (20) is above the
\* upper band (17): the position returned is 15/12.
C18_Witness ==
    /\ ComputedWithBands
    /\ Val(unit.out[1]).current_price = Some(20)
    /\ Val(unit.out[1]).bb_upper = Some(17)
    /\ Val(unit.out[1]).bb_position = Some([num |-> 15, den |-> 12])

\* C19: whenever the Bollinger band width is zero, calculate_technical_
\* indicators reports bb_position exactly 0.5 and divides by nothing that
\* is zero; the quotient (current_price - bb_lower) / (bb_upper - bb_lower)
\* is taken only when the width is strictly positive.
C19_ZeroWidthIsHalf ==
    (Returned("calculate_technical_indicators") /\ ~IsNone(unit.out[1])) =>
        LET ti == Val(unit.out[1])
            banded == ~IsNone(ti.bb_upper) /\ ~IsNone(ti.bb_lower)
        IN /\ (banded /\ Val(ti.bb_upper) = Val(ti.bb_lower))
                  => ti.bb_position = Some([num |-> 1, den |-> 2])
           /\ ~IsNone(ti.bb_position) => Val(ti.bb_position).den > 0
           /\ (~IsNone(ti.bb_position) /\ ti.bb_position # Some([num |-> 1, den |-> 2]))
                  => (banded /\ Val(ti.bb_upper) - Val(ti.bb_lower) > 0
                      /\ Val(ti.bb_position).den
                             = Val(ti.bb_upper) - Val(ti.bb_lower))

\* C19 witness: a flat series of 30 points (both bands and the price at 10)
\* got bb_position 1/2.
C19_Witness ==
    /\ Returned("calculate_technical_indicators")
    /\ ~IsNone(unit.out[1])
    /\ Val(unit.args[1]).len = 30
    /\ Val(unit.out[1]).bb_upper = Some(10)
    /\ Val(unit.out[1]).bb_lower = Some(10)
    /\ Val(unit.out[1]).current_price = Some(10)
    /\ Val(unit.out[1]).bb_position = Some([num |-> 1, den |-> 2])

\* C20: calculate_technical_indicators returns 'not available' for an
\* absent series, for every series of fewer than 26 points and when the
\* indicator computation fails; a series of 26 points or more whose
\* computation succeeds gets a record.
C20_ShortSeriesNotAvailable ==
    Returned("calculate_technical_indicators") =>
        LET df == unit.args[1]
            out == unit.out[1]
        IN /\ IsNone(df) => IsNone(out)
           /\ ~IsNone(df) =>
                  /\ Val(df).len < 26 => IsNone(out)
                  /\ Val(df).raises => IsNone(out)
                  /\ (Val(df).len >= 26 /\ ~Val(df).raises) => ~IsNone(out)

\* C20 witness: a series of 20 points was answered with 'not available'.
C20_Witness ==
    /\ Returned("calculate_technical_indicators")
    /\ ~IsNone(unit.args[1])
    /\ Val(unit.args[1]).len = 20
    /\ ~Val(unit.args[1]).raises
    /\ IsNone(unit.out[1])

\* score_coin returned a breakdown
Assembled == Returned("score_coin") /\ ~unit.out[1].raised

\* a field of the snapshot as dict.get reads it: None when absent
Got(field) == IF field = MissingKey THEN NullStr ELSE field

\* C21 as stated: the assembler copies every identity field of the snapshot
\* into the breakdown unchanged: coin_name, symbol, price, market_cap_rank,
\* change_24h and change_7d equal the snapshot's name, symbol, current
\* price, market cap rank, 24h change and 7d change.
C21_IdentityCopied_AsStated ==
    Assembled =>
        LET coin == unit.args[1]
            b == unit.out[1].breakdown
        IN /\ b.coin_name = Got(coin.name)
           /\ b.symbol = coin.symbol
           /\ b.price = coin.current_price
           /\ b.market_cap_rank = coin.market_cap_rank
           /\ b.change_24h = coin.price_change_percentage_24h
           /\ b.change_7d = coin.price_change_percentage_7d

\* the symbols of AllCoins and their spelling in capitals
InCapitals ==
    {<<"alp", "ALP">>, <<"USDC", "USDC">>, <<"gam", "GAM">>,
     <<"del", "DEL">>, <<"zet", "ZET">>, <<"bet", "BET">>}

\* C21 amended: in every breakdown the assembler returns, coin_name, price,
\* market_cap_rank, change_24h and change_7d equal the snapshot's name,
\* current price, market cap rank, 24h change and 7d change, and symbol is
\* the snapshot's symbol converted to upper case.
C21_IdentityCopied ==
    Assembled =>
        LET coin == unit.args[1]
            b == unit.out[1].breakdown
        IN /\ b.coin_name = Got(coin.name)
           /\ <<coin.symbol, b.symbol>> \in InCapitals
           /\ b.price = coin.current_price
           /\ b.market_cap_rank = coin.market_cap_rank
           /\ b.change_24h = coin.price_change_percentage_24h
           /\ b.change_7d = coin.price_change_percentage_7d

\* C21 witness: a breakdown was assembled for a snapshot whose symbol is
\* spelled in lower case and whose price is absent.
C21_Witness ==
    /\ Assembled
    /\ unit.args[1].symbol = "zet"
    /\ unit.out[1].breakdown.symbol = "ZET"
    /\ IsNone(unit.args[1].current_price)
    /\ IsNone(unit.out[1].breakdown.price)

\* score_technical returned for a record that is present
TechnicalScored ==
    Returned("score_technical") /\ ~IsNone(unit.args[1])

\* the points the call gave to the one indicator that is available, the two
\* others being not available and worth 10 each
PointsAlone == unit.out[1].score - 20

\* only the MACD difference of the record is available
OnlyMacd ==
    /\ TechnicalScored
    /\ IsNone(Val(unit.args[1]).rsi)
    /\ ~IsNone(Val(unit.args[1]).macd_diff)
    /\ IsNone(Val(unit.args[1]).bb_position)

\* the points of the bands of C23 that hold d, as the claim words them
MacdBandsAsStated(d) ==
    {pts \in {20, 17, 14, 11, 8, 5} :
       \/ pts = 20 /\ d > 5
       \/ pts = 17 /\ 2 < d /\ d <= 5
       \/ pts = 14 /\ 0 < d /\ d <= 2
       \/ pts = 11 /\ -2 < d /\ d <= 0
       \/ pts = 8 /\ -5 <= d /\ d < -2
       \/ pts = 5 /\ d < -5}

\* C23 as stated: for an available MACD difference d the contribution is 20
\* if d > 5, 17 if 2 < d <= 5, 14 if 0 < d <= 2, 11 if -2 < d <= 0, 8 if
\* -5 <= d < -2 and 5 if d < -5, and every d falls in exactly one of these
\* six bands.
C23_MacdBands_AsStated ==
    OnlyMacd =>
        MacdBandsAsStated(Val(Val(unit.args[1]).macd_diff)) = {PointsAlone}

\* the bands with -2 in the band worth 11
MacdBands(d) ==
    {pts \in {20, 17, 14, 11, 8, 5} :
       \/ pts = 20 /\ d > 5
       \/ pts = 17 /\ 2 < d /\ d <= 5
       \/ pts = 14 /\ 0 < d /\ d <= 2
       \/ pts = 11 /\ -2 <= d /\ d <= 0
       \/ pts = 8 /\ -5 <= d /\ d < -2
       \/ pts = 5 /\ d < -5}

\* C23 amended: for an available MACD difference d the contribution is 20 if
\* d > 5, 17 if 2 < d <= 5, 14 if 0 < d <= 2, 11 if -2 <= d <= 0, 8 if
\* -5 <= d < -2 and 5 if d < -5; every d falls in exactly one of these six
\* bands; a not-available d contributes 10.
C23_MacdBands ==
    /\ OnlyMacd =>
          MacdBands(Val(Val(unit.args[1]).macd_diff)) = {PointsAlone}
    /\ TechnicalScored /\ IsNone(Val(unit.args[1]).macd_diff) =>
          unit.out[1].details[2] = "MACD: N/A (neutral: +10)"

\* C23 witness: a difference of exactly -2, alone in its record, was scored
\* 11.
C23_Witness ==
    /\ OnlyMacd
    /\ Val(unit.args[1]).macd_diff = Some(-2)
    /\ PointsAlone = 11

\* only the Bollinger position of the record is available
OnlyBb ==
    /\ TechnicalScored
    /\ IsNone(Val(unit.args[1]).rsi)
    /\ IsNone(Val(unit.args[1]).macd_diff)
    /\ ~IsNone(Val(unit.args[1]).bb_position)

\* the points C24 states for the position n/d, d > 0
BbPointsAsStated(p) ==
    IF p.num < 0 \/ p.num > p.den THEN 3
    ELSE IF 5 * p.num < p.den THEN 18
    ELSE IF 5 * p.num < 2 * p.den THEN 20
    ELSE IF 5 * p.num < 3 * p.den THEN 15
    ELSE IF 5 * p.num < 4 * p.den THEN 10
    ELSE 5

\* C24: for an available Bollinger position p the contribution is 18 if
\* 0 <= p < 0.2, 20 if 0.2 <= p < 0.4, 15 if 0.4 <= p < 0.6, 10 if
\* 0.6 <= p < 0.8, 5 if 0.8 <= p <= 1.0 and 3 for every p outside [0,1],
\* below 0 as well as above 1; a not-available p contributes 10.
C24_BollingerBands ==
    /\ OnlyBb =>
          PointsAlone = BbPointsAsStated(Val(Val(unit.args[1]).bb_position))
    /\ TechnicalScored /\ IsNone(Val(unit.args[1]).bb_position) =>
          unit.out[1].details[3] = "BB: N/A (neutral: +10)"

\* only the RSI of the record is available
OnlyRsi ==
    /\ TechnicalScored
    /\ ~IsNone(Val(unit.args[1]).rsi)
    /\ IsNone(Val(unit.args[1]).macd_diff)
    /\ IsNone(Val(unit.args[1]).bb_position)

RsiPointsAsStated(r) ==
    IF r < 20 THEN 5
    ELSE IF r < 30 THEN 18
    ELSE IF r < 40 THEN 20
    ELSE IF r < 60 THEN 15
    ELSE IF r < 70 THEN 10
    ELSE IF r < 80 THEN 3
    ELSE 0

\* C25: for an available RSI r the contribution is 5 if r < 20, 18 if
\* 20 <= r < 30, 20 if 30 <= r < 40, 15 if 40 <= r < 60, 10 if 60 <= r < 70,
\* 3 if 70 <= r < 80 and 0 if r >= 80, so an RSI below 20 scores strictly
\* lower than one from 20 to 40; a not-available RSI contributes 10.
C25_RsiBands ==
    /\ OnlyRsi =>
          LET r == Val(Val(unit.args[1]).rsi)
          IN /\ PointsAlone = RsiPointsAsStated(r)
             /\ r < 20 =>
                   \A other \in RsiInputs \ {None} :
                      20 <= Val(other) /\ Val(other) < 40 =>
                         PointsAlone <
                           score_technical(CoinAlpha,
                              Some(Indicators(other, None, None))).score - 20
    /\ TechnicalScored /\ IsNone(Val(unit.args[1]).rsi) =>
          unit.out[1].details[1] = "RSI: N/A (neutral: +10)"

\* C25 witness: an RSI of 19, alone in its record, was scored 5.
C25_Witness ==
    /\ OnlyRsi
    /\ Val(unit.args[1]).rsi = Some(19)
    /\ PointsAlone = 5

\* the score of a record holding one indicator of the call and no other
ScoreOf(rsi, macd_diff, bb_position) ==
    score_technical(CoinAlpha, Some(Indicators(rsi, macd_diff, bb_position))).score

\* C26: score_technical returns exactly 30 with a rationale noting the
\* absence when the record is absent; when the record is present the score
\* is the sum of three contributions, each depending only on its own
\* indicator, and each not-available indicator contributes exactly 10, so a
\* record with every indicator not available scores 30 as well.
C26_TechnicalSum ==
    /\ Returned("score_technical") /\ IsNone(unit.args[1]) =>
          /\ unit.out[1].score = 30
          /\ unit.out[1].details = <<"No technical data available">>
    /\ TechnicalScored =>
          LET ti == Val(unit.args[1])
          IN /\ unit.out[1].score =
                    (ScoreOf(ti.rsi, None, None) - 20)
                  + (ScoreOf(None, ti.macd_diff, None) - 20)
                  + (ScoreOf(None, None, ti.bb_position) - 20)
             /\ IsNone(ti.rsi) =>
                   unit.out[1].details[1] = "RSI: N/A (neutral: +10)"
             /\ IsNone(ti.macd_diff) =>
                   unit.out[1].details[2] = "MACD: N/A (neutral: +10)"
             /\ IsNone(ti.bb_position) =>
                   unit.out[1].details[3] = "BB: N/A (neutral: +10)"
             /\ IsNone(ti.rsi) /\ IsNone(ti.macd_diff) /\ IsNone(ti.bb_position) =>
                   unit.out[1].score = 30

\* C26 witness: a record with no RSI, a MACD difference of 6 and a position
\* of 0.3 was scored 10 + 20 + 20.
C26_Witness ==
    /\ TechnicalScored
    /\ IsNone(Val(unit.args[1]).rsi)
    /\ Val(unit.args[1]).macd_diff = Some(6)
    /\ Val(unit.args[1]).bb_position = Some([num |-> 3, den |-> 10])
    /\ unit.out[1].score = 50

\* the fundamental score of a snapshot of the five measures
FundamentalOf(c24, c7, vol, mcap, rank) ==
    score_fundamental(Snapshot(c24, c7, vol, mcap, rank)).score

\* each contribution read off a call whose three other measures sit in their
\* best bands (15 for a 24h change of 6, 10 for a ratio of 0.51, 10 for rank
\* 51, 5 for a flat week)
MomentumOf(c24) ==
    FundamentalOf(c24, Some(0), Some(51), Some(100), Some(51)) - 25

VolumeOf(vol, mcap) ==
    FundamentalOf(Some(6), Some(0), vol, mcap, Some(51)) - 30

RankOf(rank) ==
    FundamentalOf(Some(6), Some(0), Some(51), Some(100), rank) - 30

VolatilityOf(c7) ==
    FundamentalOf(Some(6), c7, Some(51), Some(100), Some(51)) - 35

\* a number that is absent reads as 0
OrZero(x) == IF IsNone(x) THEN 0 ELSE Val(x)

\* C27: score_fundamental is the sum of four contributions bounded by 15,
\* 10, 10 and 5; the momentum contribution is 15 exactly for a 24h change in
\* (5,10] and is 3, below every band of a positive change up to 20, for a
\* change above 20; the volume contribution is non-decreasing in the
\* volume/market-cap ratio and at most 10; the rank contribution is 10
\* exactly for ranks 51 to 100 and lower for ranks 1 to 50; the volatility
\* contribution is non-increasing in |7d change| and at most 5.
C27_FundamentalBands ==
    Returned("score_fundamental") =>
        LET coin == unit.args[1]
            c24 == OrZero(coin.price_change_percentage_24h)
            c7 == OrZero(coin.price_change_percentage_7d)
            mo == MomentumOf(coin.price_change_percentage_24h)
            vo == VolumeOf(coin.total_volume, coin.market_cap)
            ra == RankOf(coin.market_cap_rank)
            vy == VolatilityOf(coin.price_change_percentage_7d)
        IN /\ unit.out[1].score = mo + vo + ra + vy
           /\ mo <= 15 /\ vo <= 10 /\ ra <= 10 /\ vy <= 5
           /\ mo = 15 <=> (5 < c24 /\ c24 <= 10)
           /\ c24 > 20 =>
                 /\ mo = 3
                 /\ \A other \in Change24Inputs \ {None} :
                       0 < Val(other) /\ Val(other) <= 20 => mo < MomentumOf(other)
           /\ ~IsNone(coin.market_cap) /\ OrZero(coin.market_cap) > 0 =>
                 \A vol \in VolumeInputs, mcap \in MarketCapInputs \ {None} :
                    /\ Val(mcap) > 0
                    /\ OrZero(coin.total_volume) * Val(mcap)
                          <= OrZero(vol) * Val(coin.market_cap)
                    => vo <= VolumeOf(vol, mcap)
           /\ ~IsNone(coin.market_cap_rank) =>
                 LET rank == Val(coin.market_cap_rank)
                 IN /\ ra = 10 <=> (51 <= rank /\ rank <= 100)
                    /\ 1 <= rank /\ rank <= 50 => ra < 10
           /\ \A other \in Change7Inputs :
                 Abs(c7) <= Abs(OrZero(other)) => vy >= VolatilityOf(other)

\* C27 witness: a snapshot up 21 per cent in 24h, with ratio 0.2, rank 50
\* and a week of -26 per cent, was scored 3 + 6 + 7 + 3.
C27_Witness ==
    /\ Returned("score_fundamental")
    /\ unit.args[1].price_change_percentage_24h = Some(21)
    /\ unit.args[1].total_volume = Some(20)
    /\ unit.args[1].market_cap = Some(100)
    /\ unit.args[1].market_cap_rank = Some(50)
    /\ unit.args[1].price_change_percentage_7d = Some(-26)
    /\ unit.out[1].score = 19

\* the iterations of the scoring loop that reached the RSI post-filter
PostFiltered ==
    SelectSeq(scorelog, LAMBDA e : e.verdict \in {"append", "overbought"})

C29_TotalsAndThresholds ==
    /\ \A k \in 1..Len(PostFiltered) :
          LET b == PostFiltered[k].breakdown
          IN /\ b.total_score <= 130
             /\ IsNone(b.technical_indicators) => b.total_score <= 100
    /\ Completed /\ (applied >= 110 \/ (check_regime /\ regime = "BEAR")) =>
          \A k \in 1..Len(fetchlog) :
             fetchlog[k].kind = "failed" =>
                scorelog[fetchlog[k].pos].breakdown \notin Range(Items)
    /\ Completed /\ applied > 130 => Items = <<>>

\* C29 witness: a scan with threshold 131 scored an asset 130, the maximum,
\* and returned an empty result.
C29_Witness ==
    /\ Completed
    /\ applied = 131
    /\ \E k \in 1..Len(scorelog) :
          /\ scorelog[k].verdict = "append"
          /\ scorelog[k].breakdown.total_score = 130
    /\ Items = <<>>

\* identify_catalysts returned
Identified == unit.fn = "run_detection" /\ Len(unit.out) = 2

\* C30: for every sentiment map and every min_positive >= 1,
\* identify_catalysts returns each coin at most once and only coins with
\* positive_count >= min_positive and positive_count > negative_count; each
\* returned entry has net_sentiment = positive_count - negative_count > 0,
\* total_news = positive + negative + neutral, and catalyst_strength =
\* net_sentiment / total_news in (0,1]; the list is ordered by
\* catalyst_strength, non-increasing.
C30_CatalystsSound ==
    Identified =>
        LET sentiment_map == unit.out[1]
            min_positive == unit.args[2]
            catalysts == unit.out[2]
        IN /\ \A i, j \in 1..Len(catalysts) :
                 i # j => catalysts[i].coin # catalysts[j].coin
           /\ \A i \in 1..Len(catalysts) :
                 LET c == catalysts[i]
                     s == c.catalyst_strength
                 IN /\ \E k \in 1..Len(sentiment_map) :
                          /\ sentiment_map[k].coin = c.coin
                          /\ sentiment_map[k].positive = c.positive_count
                          /\ sentiment_map[k].negative = c.negative_count
                          /\ sentiment_map[k].neutral = c.neutral_count
                    /\ c.positive_count >= min_positive
                    /\ c.positive_count > c.negative_count
                    /\ c.net_sentiment = c.positive_count - c.negative_count
                    /\ c.net_sentiment > 0
                    /\ c.total_news = c.positive_count + c.negative_count
                                        + c.neutral_count
                    /\ s.den > 0
                    /\ s.num * c.total_news = c.net_sentiment * s.den
                    /\ 0 < s.num /\ s.num <= s.den
           /\ \A i, j \in 1..Len(catalysts) :
                 i < j => catalysts[i].catalyst_strength.num
                            * catalysts[j].catalyst_strength.den
                          >= catalysts[j].catalyst_strength.num
                            * catalysts[i].catalyst_strength.den

\* C30 witness: two coins were returned, the stronger one first although the
\* sentiment map holds it second.
C30_Witness ==
    /\ Identified
    /\ Len(unit.out[2]) = 2
    /\ unit.out[1][1].coin = "BTC"
    /\ unit.out[2][1].coin = "ETH"
    /\ unit.out[2][2].coin = "BTC"
    /\ unit.out[2][2].catalyst_strength = [num |-> 1, den |-> 2]

====
